---- MODULE Spec2Model ----
(***************************************************************************)
(* Static timing analysis on a timing DAG: Kahn's topological sort, the    *)
(* forward (arrival time) and backward (required time) sweeps, the slack   *)
(* engine and the k-critical-path extractor.                               *)
(*                                                                         *)
(* Times and delays are integers (a fixed-point unit of time); the floats  *)
(* +inf, -inf and nan are kept as separate values with IEEE arithmetic.    *)
(* A graph is kept the way the graph library keeps it: an ordered node     *)
(* list and, per node, an ordered successor list.                          *)
(***************************************************************************)
EXTENDS Integers, Sequences, FiniteSets, TLC

\* ------------------------------------------------------------------ bounds
NumNodes == 3
MaxEdges == 3
MaxDelay == 1
MaxEps == 1
MaxK == 2
MaxOverrides == 1
MaxEndpoints == 2
MaxTime == 1

VARIABLES
    pc,             \* position of the running call
    graphs,         \* the graph objects, by reference; graphs[1] is the caller's G
    work_graph,     \* find_k_critical_paths: the reference its work_graph holds
    inp,            \* the arguments of the running call
    kahn,           \* Khan_topological_sort's locals: indeg, q, order
    fwd,            \* forward_arrival_times' locals: AT, backpred
    it,             \* loop turns completed by the running call
    res,            \* the bundle of the latest run_sta, <<>> before any
    path_info,      \* the latest return of extract_single_critical_path, <<>> for None
    critical_paths, \* find_k_critical_paths: the list it builds
    ret,            \* the value returned by the running call, <<>> before it returns
    raised,         \* the exception that left the running call, or "none"
    parser          \* parse_verilog_to_dag's locals: block flags, counter, Q and D nets

vars == <<pc, graphs, work_graph, inp, kahn, fwd, it, res, path_info,
          critical_paths, ret, raised, parser>>

\* ------------------------------------------------------------ sequences
Range(s) == {s[i] : i \in 1..Len(s)}

IndexOf(s, x) == CHOOSE i \in 1..Len(s) : s[i] = x

Without(s, x) == SelectSeq(s, LAMBDA y : y # x)

Iota(n) == [i \in 1..n |-> i]

\* Every ordering of the finite set S, as a sequence.
RECURSIVE Orderings(_)
Orderings(S) ==
    IF S = {} THEN {<<>>}
    ELSE UNION {{<<x>> \o t : t \in Orderings(S \ {x})} : x \in S}

\* --------------------------------------------------------------- graphs
\* nx.DiGraph: nodes in insertion order, adj[u] the successors of u in
\* insertion order, delay the edge attribute.
Nodes(g) == Range(g.nodes)

Edges(g) == {e \in Nodes(g) \X Nodes(g) : e[2] \in Range(g.adj[e[1]])}

has_edge(g, u, v) == u \in Nodes(g) /\ v \in Range(g.adj[u])

in_degree(g, v) == Cardinality({u \in Nodes(g) : v \in Range(g.adj[u])})

remove_edge(g, u, v) ==
    [g EXCEPT !.adj[u] = Without(@, v),
              !.delay = [e \in DOMAIN g.delay \ {<<u, v>>} |-> g.delay[e]]]

\* The graphs of at most n nodes and MaxEdges edges (self-loops and cycles
\* included), every successor order, every delay in 0..maxd.
EdgeSets(n) == {E \in SUBSET ((1..n) \X (1..n)) : Cardinality(E) <= MaxEdges}

AdjOrders(n, E) ==
    LET succ(u) == {e[2] : e \in {x \in E : x[1] = u}}
        all == UNION {Orderings(succ(u)) : u \in 1..n}
    IN  {a \in [1..n -> all] : \A u \in 1..n : Range(a[u]) = succ(u)}

GraphsOn(n, maxd) ==
    UNION {{[nodes |-> Iota(n), adj |-> a, delay |-> d] :
                a \in AdjOrders(n, E), d \in [E -> 0..maxd]} : E \in EdgeSets(n)}

Graphs(maxd) == UNION {GraphsOn(n, maxd) : n \in 0..NumNodes}

\* A directed cycle (a self-loop included): some node reaches itself.
RECURSIVE ReachIn(_, _, _)
ReachIn(g, S, n) ==
    IF n = 0 THEN S
    ELSE ReachIn(g, S \cup {v \in Nodes(g) : \E u \in S : has_edge(g, u, v)}, n - 1)

Descendants(g, u) == ReachIn(g, Range(g.adj[u]), Len(g.nodes))

HasCycle(g) == \E u \in Nodes(g) : u \in Descendants(g, u)

\* ------------------------------------------------- Khan_topological_sort
NoKahn == [indeg |-> <<>>, q |-> <<>>, order |-> <<>>]
NoFwd == [AT |-> <<>>, backpred |-> <<>>]
NoParser == [in_seq_always |-> FALSE, in_comb_always |-> FALSE, mux2_counter |-> 0,
             ff_q_nets |-> {}, d_nets |-> {}]

\* indeg = {u: G.in_degree(u)}; q = deque(nodes of in-degree 0); order = []
KahnStart(g) ==
    LET indeg == [u \in Nodes(g) |-> in_degree(g, u)]
    IN  [indeg |-> indeg,
         q     |-> SelectSeq(g.nodes, LAMBDA u : indeg[u] = 0),
         order |-> <<>>]

\* The fan-out loop without its in-degree test: v is queued when first reached.
RECURSIVE KahnFanout_NoZeroTest(_, _)
KahnFanout_NoZeroTest(st, vs) ==
    IF vs = <<>> THEN st
    ELSE LET v == Head(vs)
             d == st.indeg[v] - 1
         IN  KahnFanout_NoZeroTest([st EXCEPT !.indeg[v] = d, !.q = Append(@, v)],
                                   Tail(vs))

\* for v in G.successors(u): indeg[v] -= 1; if indeg[v] == 0: q.append(v)
RECURSIVE KahnFanout(_, _)
KahnFanout(st, vs) ==
    IF vs = <<>> THEN st
    ELSE LET v == Head(vs)
             d == st.indeg[v] - 1
         IN  KahnFanout([st EXCEPT !.indeg[v] = d,
                                   !.q = IF d = 0 THEN Append(@, v) ELSE @],
                        Tail(vs))

\* One turn of `while q`: u = q.popleft(); order.append(u); the fan-out loop.
KahnStep(g, st) ==
    LET u == Head(st.q)
    IN  KahnFanout([st EXCEPT !.q = Tail(@), !.order = Append(@, u)], g.adj[u])

RECURSIVE KahnRun(_, _)
KahnRun(g, st) == IF st.q = <<>> THEN st ELSE KahnRun(g, KahnStep(g, st))

\* The sort without its length test: whatever was output is returned.
KahnResult_NoLengthTest(g, st) == [raised |-> "none", order |-> st.order]

\* if len(order) != len(G): raise nx.NetworkXUnfeasible; return order
KahnResult(g, st) ==
    IF Len(st.order) # Len(g.nodes)
    THEN [raised |-> "NetworkXUnfeasible", order |-> <<>>]
    ELSE [raised |-> "none", order |-> st.order]

Khan_topological_sort(g) == KahnResult(g, KahnRun(g, KahnStart(g)))

kahn_topological_sort(g) == Khan_topological_sort(g)

\* ------------------------------------------------------ Python floats
\* A float is finite (an integer number of time units), +inf, -inf or nan.
Fin(n) == [k |-> "fin", v |-> n]
PInf == [k |-> "pinf", v |-> 0]
NInf == [k |-> "ninf", v |-> 0]
NaN == [k |-> "nan", v |-> 0]

isfinite(a) == a.k = "fin"

FNeg(a) ==
    CASE a.k = "fin" -> Fin(0 - a.v)
      [] a.k = "pinf" -> NInf
      [] a.k = "ninf" -> PInf
      [] OTHER -> NaN

\* a + b: nan is absorbing, inf + (-inf) is nan.
FAdd(a, b) ==
    CASE a.k = "nan" \/ b.k = "nan" -> NaN
      [] a.k = "fin" /\ b.k = "fin" -> Fin(a.v + b.v)
      [] a.k = "fin" -> b
      [] b.k = "fin" -> a
      [] a.k = b.k -> a
      [] OTHER -> NaN

FSub(a, b) == FAdd(a, FNeg(b))

\* a < b: every comparison with nan is false.
FLt(a, b) ==
    /\ a.k # "nan" /\ b.k # "nan"
    /\ \/ a.k = "ninf" /\ b.k # "ninf"
       \/ a.k = "fin" /\ b.k = "pinf"
       \/ a.k = "fin" /\ b.k = "fin" /\ a.v < b.v

FLe(a, b) == a.k # "nan" /\ b.k # "nan" /\ (a = b \/ FLt(a, b))

FAbs(a) ==
    CASE a.k = "fin" -> Fin(IF a.v < 0 THEN 0 - a.v ELSE a.v)
      [] a.k = "nan" -> NaN
      [] OTHER -> PInf

\* dict.get(key, default)
Get(d, key, default) == IF key \in DOMAIN d THEN d[key] ELSE default

\* ------------------------------------------------- forward_arrival_times
\* The seeding with its two loops in the other order: clock_to_q wins.
FwdSeed_ClockWins(g, startpoints, clock_to_q, startpoint_overrides) ==
    [AT |-> [n \in Nodes(g) |->
                IF n \in Range(startpoints) THEN Fin(clock_to_q)
                ELSE IF n \in DOMAIN startpoint_overrides
                     THEN Fin(startpoint_overrides[n]) ELSE NInf],
     backpred |-> [n \in Nodes(g) |-> <<>>]]

\* AT = -inf and backpred = [] everywhere; AT[s] = clock_to_q for the
\* startpoints that are nodes; then the overrides, for the keys that are nodes.
FwdSeed(g, startpoints, clock_to_q, startpoint_overrides) ==
    [AT |-> [n \in Nodes(g) |->
                IF n \in DOMAIN startpoint_overrides
                THEN Fin(startpoint_overrides[n])
                ELSE IF n \in Range(startpoints) THEN Fin(clock_to_q) ELSE NInf],
     backpred |-> [n \in Nodes(g) |-> <<>>]]

\* The relaxation without the comparison: each candidate replaces AT[v] and
\* the list, the last one processed staying.
RECURSIVE FwdFanout_LastWins(_, _, _, _, _, _)
FwdFanout_LastWins(g, st, u, au, vs, eps) ==
    IF vs = <<>> THEN st
    ELSE LET v == Head(vs)
             cand == FAdd(au, Fin(g.delay[<<u, v>>]))
             nxt == [st EXCEPT !.AT[v] = cand, !.backpred[v] = <<u>>]
         IN  FwdFanout_LastWins(g, nxt, u, au, Tail(vs), eps)

\* The relaxation with its first comparison turned round: the candidate
\* replaces AT[v] when it is the smaller one.
RECURSIVE FwdFanout_Smaller(_, _, _, _, _, _)
FwdFanout_Smaller(g, st, u, au, vs, eps) ==
    IF vs = <<>> THEN st
    ELSE LET v == Head(vs)
             cand == FAdd(au, Fin(g.delay[<<u, v>>]))
             nxt == IF FLt(FAdd(cand, Fin(eps)), st.AT[v])
                    THEN [st EXCEPT !.AT[v] = cand, !.backpred[v] = <<u>>]
                    ELSE IF FLe(FAbs(FSub(cand, st.AT[v])), Fin(eps))
                         THEN [st EXCEPT !.backpred[v] = Append(@, u)]
                         ELSE st
         IN  FwdFanout_Smaller(g, nxt, u, au, Tail(vs), eps)

\* The relaxation keeping the old list when the candidate is the larger one:
\* the new predecessor is appended instead of replacing the list.
RECURSIVE FwdFanout_KeepList(_, _, _, _, _, _)
FwdFanout_KeepList(g, st, u, au, vs, eps) ==
    IF vs = <<>> THEN st
    ELSE LET v == Head(vs)
             cand == FAdd(au, Fin(g.delay[<<u, v>>]))
             nxt == IF FLt(FAdd(st.AT[v], Fin(eps)), cand)
                    THEN [st EXCEPT !.AT[v] = cand, !.backpred[v] = Append(@, u)]
                    ELSE IF FLe(FAbs(FSub(cand, st.AT[v])), Fin(eps))
                         THEN [st EXCEPT !.backpred[v] = Append(@, u)]
                         ELSE st
         IN  FwdFanout_KeepList(g, nxt, u, au, Tail(vs), eps)

\* for _, v, data in G.out_edges(u, data=True), with au read before the loop
RECURSIVE FwdFanout(_, _, _, _, _, _)
FwdFanout(g, st, u, au, vs, eps) ==
    IF vs = <<>> THEN st
    ELSE LET v == Head(vs)
             cand == FAdd(au, Fin(g.delay[<<u, v>>]))
             nxt == IF FLt(FAdd(st.AT[v], Fin(eps)), cand)
                    THEN [st EXCEPT !.AT[v] = cand, !.backpred[v] = <<u>>]
                    ELSE IF FLe(FAbs(FSub(cand, st.AT[v])), Fin(eps))
                         THEN [st EXCEPT !.backpred[v] = Append(@, u)]
                         ELSE st
         IN  FwdFanout(g, nxt, u, au, Tail(vs), eps)

\* One turn of `for u in topo_order`: skip an unreached u, else relax its fan-out.
FwdVisit(g, st, u, eps) ==
    IF st.AT[u] = NInf THEN st
    ELSE FwdFanout(g, st, u, st.AT[u], g.adj[u], eps)

RECURSIVE FwdSweep(_, _, _, _)
FwdSweep(g, st, order, eps) ==
    IF order = <<>> THEN st
    ELSE FwdSweep(g, FwdVisit(g, st, Head(order), eps), Tail(order), eps)

forward_arrival_times(g, topo_order, startpoints, clock_to_q, startpoint_overrides, eps) ==
    FwdSweep(g, FwdSeed(g, startpoints, clock_to_q, startpoint_overrides), topo_order, eps)

\* ----------------------------------------------- backward_required_times
\* RT = +inf everywhere; RT[e] = Tclk - setup for the endpoints that are nodes;
\* then the overrides. The reverse sweep is commented out in the source.
backward_required_times(g, topo_order, endpoints, Tclk, setup, endpoint_overrides) ==
    [n \in Nodes(g) |->
        IF n \in DOMAIN endpoint_overrides
        THEN Fin(endpoint_overrides[n])
        ELSE IF n \in Range(endpoints) THEN Fin(Tclk - setup) ELSE PInf]

\* -------------------------------------------------------- compute_slacks
RECURSIVE FMin(_)
FMin(s) ==
    IF Len(s) = 1 THEN s[1]
    ELSE LET m == FMin(SubSeq(s, 1, Len(s) - 1))
         IN  IF FLt(s[Len(s)], m) THEN s[Len(s)] ELSE m

RECURSIVE FSum(_)
FSum(s) == IF s = <<>> THEN Fin(0) ELSE FAdd(FSum(SubSeq(s, 1, Len(s) - 1)), s[Len(s)])

\* The edge slack taken at the wrong end of the edge: rt_v - at_v - d.
EdgeSlack_HeadArrival(g, AT, RT, e) ==
    FSub(FSub(Get(RT, e[2], PInf), Get(AT, e[2], NInf)), Fin(g.delay[e]))

\* s = rt - at, with at = AT.get(n, -inf) and rt = RT.get(n, inf)
NodeSlack(AT, RT, n) == FSub(Get(RT, n, PInf), Get(AT, n, NInf))

\* rt_v - at_u - d
EdgeSlack(g, AT, RT, e) ==
    FSub(FSub(Get(RT, e[2], PInf), Get(AT, e[1], NInf)), Fin(g.delay[e]))

\* TNS summed over every finite slack, the negative ones or not.
TotalNegativeSlack_NoSignTest(finite_node_slacks) == FSum(finite_node_slacks)

\* TNS = sum(s for s in finite_node_slacks if s < 0.0)
TotalNegativeSlack(finite_node_slacks) ==
    FSum(SelectSeq(finite_node_slacks, LAMBDA x : FLt(x, Fin(0))))

\* WNS with min's default left at 0.0 when no node slack is finite.
WorstSlack_ZeroDefault(finite_node_slacks) ==
    IF finite_node_slacks # <<>> THEN FMin(finite_node_slacks) ELSE Fin(0)

\* WNS = min(finite_node_slacks) if finite_node_slacks else math.inf
WorstSlack(finite_node_slacks) ==
    IF finite_node_slacks # <<>> THEN FMin(finite_node_slacks) ELSE PInf

compute_slacks(g, AT, RT) ==
    LET node_slack == [n \in Nodes(g) |-> NodeSlack(AT, RT, n)]
        edge_slack == [e \in Edges(g) |-> EdgeSlack(g, AT, RT, e)]
        values == [i \in 1..Len(g.nodes) |-> node_slack[g.nodes[i]]]
        finite_node_slacks == SelectSeq(values, isfinite)
    IN  [node_slack |-> node_slack,
         edge_slack |-> edge_slack,
         WNS |-> WorstSlack(finite_node_slacks),
         TNS |-> TotalNegativeSlack(finite_node_slacks)]

\* --------------------------------------------------------------- run_sta
\* a: the keyword arguments (startpoints, endpoints, Tclk, setup, clock_to_q,
\* startpoint_overrides, endpoint_overrides, eps).
run_sta(g, a) ==
    LET topo == Khan_topological_sort(g)
        f == forward_arrival_times(g, topo.order, a.startpoints, a.clock_to_q,
                                   a.startpoint_overrides, a.eps)
        RT == backward_required_times(g, topo.order, a.endpoints, a.Tclk, a.setup,
                                      a.endpoint_overrides)
        sl == compute_slacks(g, f.AT, RT)
    IN  IF topo.raised # "none"
        THEN [raised |-> topo.raised]
        ELSE [raised |-> "none", AT |-> f.AT, RT |-> RT, backpred |-> f.backpred,
              node_slack |-> sl.node_slack, edge_slack |-> sl.edge_slack,
              WNS |-> sl.WNS, TNS |-> sl.TNS, topo |-> topo.order]

\* ------------------------------------------ extract_single_critical_path
Reverse(s) == [i \in 1..Len(s) |-> s[Len(s) + 1 - i]]

\* min taking the last of the elements that share the least key.
RECURSIVE MinByKey_LastOfTies(_, _)
MinByKey_LastOfTies(s, key) ==
    IF Len(s) = 1 THEN s[1]
    ELSE LET m == MinByKey_LastOfTies(SubSeq(s, 1, Len(s) - 1), key)
         IN  IF FLe(key[s[Len(s)]], key[m]) THEN s[Len(s)] ELSE m

\* min(s, key=...): the first element whose key no other key is below.
RECURSIVE MinByKey(_, _)
MinByKey(s, key) ==
    IF Len(s) = 1 THEN s[1]
    ELSE LET m == MinByKey(SubSeq(s, 1, Len(s) - 1), key)
         IN  IF FLt(key[s[Len(s)]], key[m]) THEN s[Len(s)] ELSE m

\* The trace following the last predecessor listed instead of the first.
RECURSIVE TraceBack_LastPred(_, _, _, _, _)
TraceBack_LastPred(backpred, startpoints, current, path_nodes, path_edges) ==
    IF \/ current \in Range(startpoints)
       \/ current \notin DOMAIN backpred
       \/ backpred[current] = <<>>
    THEN [nodes |-> Append(path_nodes, current), edges |-> path_edges]
    ELSE LET pred == backpred[current][Len(backpred[current])]
         IN  TraceBack_LastPred(backpred, startpoints, pred, Append(path_nodes, current),
                                Append(path_edges, <<pred, current>>))

\* The `while True` trace from the worst endpoint, path_nodes and path_edges
\* in the order they are appended (endpoint first).
RECURSIVE TraceBack(_, _, _, _, _)
TraceBack(backpred, startpoints, current, path_nodes, path_edges) ==
    IF \/ current \in Range(startpoints)
       \/ current \notin DOMAIN backpred
       \/ backpred[current] = <<>>
    THEN [nodes |-> Append(path_nodes, current), edges |-> path_edges]
    ELSE LET pred == backpred[current][1]
         IN  TraceBack(backpred, startpoints, pred, Append(path_nodes, current),
                       Append(path_edges, <<pred, current>>))

\* The path's WNS and TNS taken over its node slacks alone.
ExtractFrom_NodeSlacksOnly(g, a, r) ==
    LET valid_endpoints == SelectSeq(a.endpoints, LAMBDA e : e \in DOMAIN r.node_slack)
        worst_endpoint == MinByKey(valid_endpoints, r.node_slack)
        tr == TraceBack(r.backpred, a.startpoints, worst_endpoint, <<>>, <<>>)
        path_nodes == Reverse(tr.nodes)
        path_edges == Reverse(tr.edges)
        present == SelectSeq(path_edges, LAMBDA e : has_edge(g, e[1], e[2]))
        all_slacks == [i \in 1..Len(path_nodes) |-> Get(r.node_slack, path_nodes[i], PInf)]
    IN  IF valid_endpoints = <<>> THEN <<>>
        ELSE IF Len(tr.nodes) < 2 THEN <<>>
        ELSE <<[nodes |-> path_nodes,
                edges |-> path_edges,
                delay |-> FSum([i \in 1..Len(present) |-> Fin(g.delay[present[i]])]),
                WNS |-> FMin(all_slacks),
                TNS |-> FSum(SelectSeq(all_slacks, LAMBDA x : FLt(x, Fin(0)))),
                sta |-> r]>>

\* The part of extract_single_critical_path after run_sta returned r:
\* <<>> for None, else <<the path record>>.
ExtractFrom(g, a, r) ==
    LET valid_endpoints == SelectSeq(a.endpoints, LAMBDA e : e \in DOMAIN r.node_slack)
        worst_endpoint == MinByKey(valid_endpoints, r.node_slack)
        tr == TraceBack(r.backpred, a.startpoints, worst_endpoint, <<>>, <<>>)
        path_nodes == Reverse(tr.nodes)
        path_edges == Reverse(tr.edges)
        present == SelectSeq(path_edges, LAMBDA e : has_edge(g, e[1], e[2]))
        node_slacks == [i \in 1..Len(path_nodes) |-> Get(r.node_slack, path_nodes[i], PInf)]
        edge_slacks == [i \in 1..Len(path_edges) |-> Get(r.edge_slack, path_edges[i], PInf)]
        all_slacks == node_slacks \o edge_slacks
    IN  IF valid_endpoints = <<>> THEN <<>>
        ELSE IF Len(tr.nodes) < 2 THEN <<>>
        ELSE <<[nodes |-> path_nodes,
                edges |-> path_edges,
                delay |-> FSum([i \in 1..Len(present) |-> Fin(g.delay[present[i]])]),
                WNS |-> FMin(all_slacks),
                TNS |-> FSum(SelectSeq(all_slacks, LAMBDA x : FLt(x, Fin(0)))),
                sta |-> r]>>

\* ------------------------------------------------- find_k_critical_paths
\* The working graph bound to the caller's graph object instead of a copy.
copy_SameObject(gs, ref) == [graphs |-> gs, ref |-> ref]

\* G.copy(): a new graph object with the same nodes, edges and delays.
copy(gs, ref) == [graphs |-> Append(gs, gs[ref]), ref |-> Len(gs) + 1]

\* The loop that blocks an emitted path, removing nothing.
RemovePathEdges_Nothing(g, es) == g

\* for (u, v) in path_info["edges"]: if has_edge(u, v): remove_edge(u, v)
RECURSIVE RemovePathEdges(_, _)
RemovePathEdges(g, es) ==
    IF es = <<>> THEN g
    ELSE LET u == Head(es)[1]
             v == Head(es)[2]
         IN  RemovePathEdges(IF has_edge(g, u, v) THEN remove_edge(g, u, v) ELSE g,
                             Tail(es))

\* ---------------------------------------------------------------------
\* SpecKahn: one call Khan_topological_sort(G), loop turn by loop turn.
InitKahn ==
    /\ pc = "kahn_loop"
    /\ \E g \in Graphs(0) :
          /\ graphs = <<g>>
          /\ kahn = KahnStart(g)
    /\ work_graph = 1
    /\ inp = [fn |-> "Khan_topological_sort"]
    /\ fwd = NoFwd
    /\ it = 0
    /\ res = <<>>
    /\ path_info = <<>>
    /\ critical_paths = <<>>
    /\ ret = <<>>
    /\ raised = "none"
    /\ parser = NoParser

KahnLoop ==
    /\ pc = "kahn_loop"
    /\ kahn.q # <<>>
    /\ kahn' = KahnStep(graphs[1], kahn)
    /\ UNCHANGED <<pc, graphs, work_graph, inp, fwd, it, res, path_info, critical_paths,
                   ret, raised, parser>>

KahnRaise ==
    /\ pc = "kahn_loop"
    /\ kahn.q = <<>>
    /\ KahnResult(graphs[1], kahn).raised # "none"
    /\ raised' = KahnResult(graphs[1], kahn).raised
    /\ pc' = "done"
    /\ UNCHANGED <<graphs, work_graph, inp, kahn, fwd, it, res, path_info,
                   critical_paths, ret, parser>>

KahnReturn ==
    /\ pc = "kahn_loop"
    /\ kahn.q = <<>>
    /\ KahnResult(graphs[1], kahn).raised = "none"
    /\ ret' = <<KahnResult(graphs[1], kahn).order>>
    /\ pc' = "done"
    /\ UNCHANGED <<graphs, work_graph, inp, kahn, fwd, it, res, path_info,
                   critical_paths, raised, parser>>

NextKahn == KahnLoop \/ KahnRaise \/ KahnReturn

SpecKahn == InitKahn /\ [][NextKahn]_vars

\* ---------------------------------------------------------------------
\* The arguments a caller may pass. Nets are 1..NumNodes, whether or not the
\* graph holds them.
NodeIds == 1..NumNodes

\* A collection of nets in sorted order, as build_graph_from_verilog returns it.
RECURSIVE Sorted(_)
Sorted(S) ==
    IF S = {} THEN <<>>
    ELSE LET x == CHOOSE y \in S : \A z \in S : y <= z
         IN  <<x>> \o Sorted(S \ {x})

StartpointLists == {Sorted(S) : S \in SUBSET NodeIds}

\* The endpoint collection in any order (its order breaks slack ties).
EndpointLists ==
    UNION {Orderings(S) : S \in {T \in SUBSET NodeIds : Cardinality(T) <= MaxEndpoints}}

\* An override dict giving some nets one of `values`.
OverrideDicts(values) == UNION {[S -> values] : S \in SUBSET NodeIds}

ClockToQ == 0
Tclk == 4
Setup == 1
StartpointOverrideValues == {1}
EndpointOverrideValues == {1}

\* The two override dicts of a call: at most MaxOverrides entries in all.
OverridePairs ==
    {p \in OverrideDicts(StartpointOverrideValues) \X OverrideDicts(EndpointOverrideValues) :
        Cardinality(DOMAIN p[1]) + Cardinality(DOMAIN p[2]) <= MaxOverrides}

StaArgs ==
    {[startpoints |-> s, endpoints |-> e, Tclk |-> Tclk, setup |-> Setup,
      clock_to_q |-> ClockToQ, startpoint_overrides |-> p[1],
      endpoint_overrides |-> p[2], eps |-> x] :
        s \in StartpointLists, e \in EndpointLists, p \in OverridePairs, x \in 0..MaxEps}

Dags(maxd) == {g \in Graphs(maxd) : ~HasCycle(g)}

\* ---------------------------------------------------------------------
\* Spec: one call find_k_critical_paths(G, ..., k=k) on a DAG.
InitWith(gset, aset, kset) ==
    /\ pc = "copy"
    /\ \E g \in gset : graphs = <<g>>
    /\ \E a \in aset, k \in kset : inp = [fn |-> "find_k_critical_paths", a |-> a, k |-> k]
    /\ work_graph = 0
    /\ kahn = NoKahn
    /\ fwd = NoFwd
    /\ it = 0
    /\ res = <<>>
    /\ path_info = <<>>
    /\ critical_paths = <<>>
    /\ ret = <<>>
    /\ raised = "none"
    /\ parser = NoParser

Init == InitWith(Dags(MaxDelay), StaArgs, 0..MaxK)

\* work_graph = G.copy(); critical_paths = []
Copy ==
    /\ pc = "copy"
    /\ graphs' = copy(graphs, 1).graphs
    /\ work_graph' = copy(graphs, 1).ref
    /\ critical_paths' = <<>>
    /\ pc' = "loop"
    /\ UNCHANGED <<inp, kahn, fwd, it, res, path_info, ret, raised, parser>>

\* extract_single_critical_path(work_graph, ...) leaves by the cycle error.
ExtractRaise ==
    /\ pc = "loop" /\ it < inp.k
    /\ LET r == run_sta(graphs[work_graph], inp.a)
       IN  /\ r.raised # "none"
           /\ raised' = r.raised
    /\ pc' = "done"
    /\ UNCHANGED <<graphs, work_graph, inp, kahn, fwd, it, res, path_info,
                   critical_paths, ret, parser>>

\* extract_single_critical_path(work_graph, ...) returns None or a path.
ExtractReturn ==
    /\ pc = "loop" /\ it < inp.k
    /\ LET r == run_sta(graphs[work_graph], inp.a)
       IN  /\ r.raised = "none"
           /\ res' = <<r>>
           /\ path_info' = ExtractFrom(graphs[work_graph], inp.a, r)
    /\ pc' = "extracted"
    /\ UNCHANGED <<graphs, work_graph, inp, kahn, fwd, it, critical_paths, ret, raised,
                   parser>>

\* if not path_info: break
Break ==
    /\ pc = "extracted"
    /\ path_info = <<>>
    /\ pc' = "return"
    /\ UNCHANGED <<graphs, work_graph, inp, kahn, fwd, it, res, path_info,
                   critical_paths, ret, raised, parser>>

\* critical_paths.append(path_info); remove the path's edges from work_graph
Emit ==
    /\ pc = "extracted"
    /\ path_info # <<>>
    /\ critical_paths' = Append(critical_paths, path_info[1])
    /\ graphs' = [graphs EXCEPT ![work_graph] = RemovePathEdges(@, path_info[1].edges)]
    /\ it' = it + 1
    /\ pc' = "loop"
    /\ UNCHANGED <<work_graph, inp, kahn, fwd, res, path_info, ret, raised, parser>>

\* range(k) is used up
LoopEnd ==
    /\ pc = "loop" /\ it >= inp.k
    /\ pc' = "return"
    /\ UNCHANGED <<graphs, work_graph, inp, kahn, fwd, it, res, path_info,
                   critical_paths, ret, raised, parser>>

\* return critical_paths
Return ==
    /\ pc = "return"
    /\ ret' = <<critical_paths>>
    /\ pc' = "done"
    /\ UNCHANGED <<graphs, work_graph, inp, kahn, fwd, it, res, path_info,
                   critical_paths, raised, parser>>

NextFindK == Copy \/ ExtractReturn \/ Break \/ Emit \/ LoopEnd \/ Return

Spec == Init /\ [][NextFindK]_vars

\* ---------------------------------------------------------------------
\* SpecAnyGraph: find_k_critical_paths on any directed graph, cyclic ones
\* included, with default seeds.
DefaultArgs ==
    [startpoints : StartpointLists,
     endpoints : {Sorted(NodeIds)},
     Tclk : {Tclk},
     setup : {Setup},
     clock_to_q : {ClockToQ},
     startpoint_overrides : {<<>>},
     endpoint_overrides : {<<>>},
     eps : {0}]

InitAnyGraph == InitWith(Graphs(0), DefaultArgs, 0..MaxK)

NextAnyGraph == Copy \/ ExtractRaise \/ ExtractReturn \/ Break \/ Emit \/ LoopEnd \/ Return

SpecAnyGraph == InitAnyGraph /\ [][NextAnyGraph]_vars

\* ---------------------------------------------------------------------
\* SpecFwd: one call forward_arrival_times(G, topo_order, ...) on a DAG with
\* any topological order of it, one turn of the sweep per step.
TopoOrders(g) == {o \in Orderings(Nodes(g)) :
                     \A e \in Edges(g) : IndexOf(o, e[1]) < IndexOf(o, e[2])}

FwdArgs ==
    [startpoints : StartpointLists,
     clock_to_q : {ClockToQ},
     startpoint_overrides : OverrideDicts(StartpointOverrideValues),
     eps : 0..MaxEps]

InitFwd ==
    /\ pc = "fwd_loop"
    /\ \E g \in Dags(MaxDelay), a \in FwdArgs :
          /\ graphs = <<g>>
          /\ \E o \in TopoOrders(g) :
                inp = [fn |-> "forward_arrival_times", a |-> a, topo_order |-> o]
          /\ fwd = FwdSeed(g, a.startpoints, a.clock_to_q, a.startpoint_overrides)
    /\ work_graph = 1
    /\ kahn = NoKahn
    /\ it = 0
    /\ res = <<>>
    /\ path_info = <<>>
    /\ critical_paths = <<>>
    /\ ret = <<>>
    /\ raised = "none"
    /\ parser = NoParser

\* for u in topo_order: ...
FwdTurn ==
    /\ pc = "fwd_loop"
    /\ it < Len(inp.topo_order)
    /\ fwd' = FwdVisit(graphs[1], fwd, inp.topo_order[it + 1], inp.a.eps)
    /\ it' = it + 1
    /\ UNCHANGED <<pc, graphs, work_graph, inp, kahn, res, path_info, critical_paths,
                   ret, raised, parser>>

\* return AT, backpred
FwdReturn ==
    /\ pc = "fwd_loop"
    /\ it = Len(inp.topo_order)
    /\ ret' = <<fwd>>
    /\ pc' = "done"
    /\ UNCHANGED <<graphs, work_graph, inp, kahn, fwd, it, res, path_info,
                   critical_paths, raised, parser>>

NextFwd == FwdTurn \/ FwdReturn

SpecFwd == InitFwd /\ [][NextFwd]_vars

\* ---------------------------------------------------------------------
\* Verilog_Parcer. A netlist text is the sequence of its lines and a line
\* the sequence of its tokens (words, literals, operators, punctuation);
\* white space only separates tokens. Delays are in units of 0.001.
GATE_DELAY ==
    [ASSIGN |-> 1, COMB_ALWAYS |-> 20, NOT |-> 10, AND |-> 20, OR |-> 40, XOR |-> 30,
     NAND |-> 25, NOR |-> 45, MUX2_NOT |-> 50, MUX2_AND |-> 70, MUX2_OR |-> 80]

\* The tokens that [A-Za-z_]\w*(?:\[\d+\])? matches whole: net names and keywords.
Words ==
    {"a", "b", "b0", "c", "clk", "d", "m1", "m2", "q", "s", "u", "x", "y", "z",
     "always", "assign", "begin", "end", "endmodule", "posedge", "negedge", "MUX2"}

\* What the identifier pattern finds inside a numeric literal.
LiteralWords == ("1'b0" :> <<"b0">>) @@ ("1" :> <<>>)

\* The tokens str.startswith("always") and str.startswith("end") accept first.
AlwaysPrefixed == {"always"}
EndPrefixed == {"end", "endmodule"}

\* f"mux2_nS_{i}", f"mux2_t0_{i}", f"mux2_t1_{i}"
Mux2Name(stem, i) == "mux2_" \o stem \o "_" \o ToString(i)

\* Python's order on the strings that can name a net here.
NetOrder ==
    <<"1'b0", "a", "b", "b0", "c", "clk", "d", "m1", "m2">> \o
    [i \in 1..9 |-> Mux2Name("nS", i)] \o [i \in 1..9 |-> Mux2Name("t0", i)] \o
    [i \in 1..9 |-> Mux2Name("t1", i)] \o <<"q", "s", "u", "x", "y", "z">>

\* sorted(S) for a set of net names
sorted(S) == SelectSeq(NetOrder, LAMBDA n : n \in S)

\* nx.DiGraph(), G.add_node(n), G.add_edge(u, v, delay=d), G.out_degree(n)
EmptyGraph == [nodes |-> <<>>, adj |-> <<>>, delay |-> <<>>]

add_node(g, n) ==
    IF n \in Nodes(g) THEN g
    ELSE [nodes |-> Append(g.nodes, n), adj |-> (n :> <<>>) @@ g.adj, delay |-> g.delay]

add_edge(g, u, v, d) ==
    LET g1 == add_node(add_node(g, u), v)
    IN  [nodes |-> g1.nodes,
         adj |-> [g1.adj EXCEPT ![u] = IF v \in Range(@) THEN @ ELSE Append(@, v)],
         delay |-> (<<u, v>> :> d) @@ g1.delay]

out_degree(g, n) == Len(g.adj[n])

\* signal_re.findall(rhs_raw): the identifiers of the tokens, in order.
RECURSIVE signal_re_findall(_)
signal_re_findall(toks) ==
    IF toks = <<>> THEN <<>>
    ELSE (IF Head(toks) \in Words THEN <<Head(toks)>>
          ELSE IF Head(toks) \in DOMAIN LiteralWords THEN LiteralWords[Head(toks)]
          ELSE <<>>) \o signal_re_findall(Tail(toks))

\* expr.count(op)
Count(expr, op) == Cardinality({i \in 1..Len(expr) : expr[i] = op})

\* re.findall(negated_signal_pattern, expr): a ~ with an identifier next.
negated_signals(expr) ==
    SelectSeq([i \in 1..Len(expr) |-> i],
              LAMBDA i : expr[i] = "~" /\ i < Len(expr) /\ expr[i + 1] \in Words)

\* re.findall(all_signals_pattern, expr): the identifiers, negated or not.
all_signals(expr) == signal_re_findall(expr)

\* The classifier with the plain AND test ahead of the NOR test.
detect_gate_type_AndFirst(expression) ==
    LET and_count == Count(expression, "&")
        or_count == Count(expression, "|")
        xor_count == Count(expression, "^")
        not_count == Count(expression, "~")
        all_negated == /\ not_count >= 2
                       /\ Len(negated_signals(expression)) >= 2
                       /\ Len(negated_signals(expression)) = Len(all_signals(expression))
    IN  IF expression # <<>> /\ expression[1] = "~"
           /\ and_count = 0 /\ or_count = 0 /\ xor_count = 0 THEN "NOT"
        ELSE IF and_count > 0 /\ or_count = 0 /\ xor_count = 0 THEN "AND"
        ELSE IF and_count > 0 /\ or_count = 0 /\ xor_count = 0 /\ all_negated THEN "NOR"
        ELSE IF or_count > 0 /\ and_count = 0 /\ xor_count = 0 /\ all_negated THEN "NAND"
        ELSE IF xor_count > 0 /\ and_count = 0 /\ or_count = 0 THEN "XOR"
        ELSE IF or_count > 0 /\ and_count = 0 /\ xor_count = 0 THEN "OR"
        ELSE "ASSIGN"

\* detect_gate_type(expression), the expression stripped
detect_gate_type(expression) ==
    LET and_count == Count(expression, "&")
        or_count == Count(expression, "|")
        xor_count == Count(expression, "^")
        not_count == Count(expression, "~")
        all_negated == /\ not_count >= 2
                       /\ Len(negated_signals(expression)) >= 2
                       /\ Len(negated_signals(expression)) = Len(all_signals(expression))
    IN  IF expression # <<>> /\ expression[1] = "~"
           /\ and_count = 0 /\ or_count = 0 /\ xor_count = 0 THEN "NOT"
        ELSE IF and_count > 0 /\ or_count = 0 /\ xor_count = 0 /\ all_negated THEN "NOR"
        ELSE IF or_count > 0 /\ and_count = 0 /\ xor_count = 0 /\ all_negated THEN "NAND"
        ELSE IF xor_count > 0 /\ and_count = 0 /\ or_count = 0 THEN "XOR"
        ELSE IF and_count > 0 /\ or_count = 0 /\ xor_count = 0 THEN "AND"
        ELSE IF or_count > 0 /\ and_count = 0 /\ xor_count = 0 THEN "OR"
        ELSE "ASSIGN"

\* The index of the first token t of line at or after position from, else 0.
FirstIndex(line, t, from) ==
    LET at == {i \in from..Len(line) : line[i] = t}
    IN  IF at = {} THEN 0 ELSE CHOOSE i \in at : \A j \in at : i <= j

\* proc_assign_re.match(line): <<>> for no match, else <<(lhs, op, rhs_raw)>>.
proc_assign_re(line) ==
    LET semi == FirstIndex(line, ";", 4)
    IN  IF Len(line) >= 4 /\ line[1] \in Words /\ line[2] \in {"<=", "="} /\ semi # 0
        THEN <<[lhs |-> line[1], op |-> line[2], rhs_raw |-> SubSeq(line, 3, semi - 1)]>>
        ELSE <<>>

\* assign_re.match(line) for a left-hand side of one token.
assign_re(line) ==
    LET semi == FirstIndex(line, ";", 5)
    IN  IF Len(line) >= 5 /\ line[1] = "assign" /\ line[3] = "=" /\ semi # 0
        THEN <<[lhs |-> line[2], rhs_raw |-> SubSeq(line, 4, semi - 1)]>>
        ELSE <<>>

\* mux2_re.match(line): the instance's shape, "" standing for a captured part.
Mux2Shape ==
    <<"MUX2", "", "(", ".A", "(", "", ")", ",", ".B", "(", "", ")", ",",
      ".S", "(", "", ")", ",", ".Y", "(", "", ")", ")", ";">>

mux2_re(line) ==
    IF /\ Len(line) >= Len(Mux2Shape)
       /\ \A i \in 1..Len(Mux2Shape) : Mux2Shape[i] = "" \/ line[i] = Mux2Shape[i]
       /\ line[2] \in Words
       /\ \A i \in {6, 11, 16, 21} : line[i] # ")"
    THEN <<[signal_a |-> line[6], signal_b |-> line[11],
            signal_s |-> line[16], signal_y |-> line[21]]>>
    ELSE <<>>

\* stripped.startswith("always"); "posedge" in stripped or "negedge" in stripped
IsAlwaysLine(line) == line # <<>> /\ line[1] \in AlwaysPrefixed
IsClockedLine(line) == \E i \in 1..Len(line) : line[i] \in {"posedge", "negedge"}
IsEndLine(line) == line # <<>> /\ line[1] \in EndPrefixed

\* for s in rhs_signals: add_node(s); add_node(lhs); add_edge(s, lhs, delay)
RECURSIVE AddFanin(_, _, _, _)
AddFanin(g, rhs_signals, lhs, delay) ==
    IF rhs_signals = <<>> THEN g
    ELSE AddFanin(add_edge(add_node(add_node(g, Head(rhs_signals)), lhs),
                           Head(rhs_signals), lhs, delay),
                  Tail(rhs_signals), lhs, delay)

RECURSIVE AddNodes(_, _)
AddNodes(g, ns) == IF ns = <<>> THEN g ELSE AddNodes(add_node(g, Head(ns)), Tail(ns))

\* The entry of an always block taken for clocked whatever the line holds.
EnterAlways_Clocked(p, line) ==
    [p EXCEPT !.in_seq_always = TRUE, !.in_comb_always = FALSE]

\* if stripped.startswith("always"): set the two flags; continue
EnterAlways(p, line) ==
    IF IsClockedLine(line)
    THEN [p EXCEPT !.in_seq_always = TRUE, !.in_comb_always = FALSE]
    ELSE [p EXCEPT !.in_comb_always = TRUE, !.in_seq_always = FALSE]

\* if in_seq_always: the Q net and the D nets of a procedural assignment
SeqLine(G, p, line) ==
    LET m == proc_assign_re(line)
    IN  IF m = <<>> THEN [G |-> G, parser |-> p]
        ELSE LET rhs_signals == signal_re_findall(m[1].rhs_raw)
             IN  [G |-> AddNodes(add_node(G, m[1].lhs), rhs_signals),
                  parser |-> [p EXCEPT !.ff_q_nets = @ \cup {m[1].lhs},
                                       !.d_nets = @ \cup Range(rhs_signals)]]

\* if in_comb_always: the edges of a procedural assignment
CombLine(G, p, line) ==
    LET m == proc_assign_re(line)
    IN  IF m = <<>> THEN [G |-> G, parser |-> p]
        ELSE LET gate_type == detect_gate_type(m[1].rhs_raw)
                 delay == Get(GATE_DELAY, gate_type, GATE_DELAY["COMB_ALWAYS"])
             IN  [G |-> AddFanin(G, signal_re_findall(m[1].rhs_raw), m[1].lhs, delay),
                  parser |-> p]

\* The expansion without the edge S -> t1.
Mux2Line_SixEdges(G, p, line) ==
    LET m == mux2_re(line)[1]
        i == p.mux2_counter + 1
        nS_name == Mux2Name("nS", i)
        t0_name == Mux2Name("t0", i)
        t1_name == Mux2Name("t1", i)
        g0 == AddNodes(G, <<m.signal_a, m.signal_b, m.signal_s, nS_name, t0_name,
                            t1_name, m.signal_y>>)
        g1 == add_edge(g0, m.signal_s, nS_name, GATE_DELAY["MUX2_NOT"])
        g2 == add_edge(g1, m.signal_a, t0_name, GATE_DELAY["MUX2_AND"])
        g3 == add_edge(g2, nS_name, t0_name, GATE_DELAY["MUX2_AND"])
        g4 == add_edge(g3, m.signal_b, t1_name, GATE_DELAY["MUX2_AND"])
        g6 == add_edge(g4, t0_name, m.signal_y, GATE_DELAY["MUX2_OR"])
        g7 == add_edge(g6, t1_name, m.signal_y, GATE_DELAY["MUX2_OR"])
    IN  [G |-> g7, parser |-> [p EXCEPT !.mux2_counter = i]]

\* A MUX2 instance outside the blocks: the counter, seven nodes, seven edges.
Mux2Line(G, p, line) ==
    LET m == mux2_re(line)[1]
        i == p.mux2_counter + 1
        nS_name == Mux2Name("nS", i)
        t0_name == Mux2Name("t0", i)
        t1_name == Mux2Name("t1", i)
        g0 == AddNodes(G, <<m.signal_a, m.signal_b, m.signal_s, nS_name, t0_name,
                            t1_name, m.signal_y>>)
        g1 == add_edge(g0, m.signal_s, nS_name, GATE_DELAY["MUX2_NOT"])
        g2 == add_edge(g1, m.signal_a, t0_name, GATE_DELAY["MUX2_AND"])
        g3 == add_edge(g2, nS_name, t0_name, GATE_DELAY["MUX2_AND"])
        g4 == add_edge(g3, m.signal_b, t1_name, GATE_DELAY["MUX2_AND"])
        g5 == add_edge(g4, m.signal_s, t1_name, GATE_DELAY["MUX2_AND"])
        g6 == add_edge(g5, t0_name, m.signal_y, GATE_DELAY["MUX2_OR"])
        g7 == add_edge(g6, t1_name, m.signal_y, GATE_DELAY["MUX2_OR"])
    IN  [G |-> g7, parser |-> [p EXCEPT !.mux2_counter = i]]

\* The continuous assignment with the wire delay whatever the gate.
AssignLine_WireDelay(G, p, line) ==
    LET m == assign_re(line)
    IN  IF m = <<>> THEN [G |-> G, parser |-> p]
        ELSE [G |-> AddFanin(G, signal_re_findall(m[1].rhs_raw), m[1].lhs,
                             GATE_DELAY["ASSIGN"]),
              parser |-> p]

\* Outside the blocks, no MUX2: the edges of a continuous assignment, if it is one.
AssignLine(G, p, line) ==
    LET m == assign_re(line)
    IN  IF m = <<>> THEN [G |-> G, parser |-> p]
        ELSE LET gate_type == detect_gate_type(m[1].rhs_raw)
                 delay == Get(GATE_DELAY, gate_type, GATE_DELAY["ASSIGN"])
             IN  [G |-> AddFanin(G, signal_re_findall(m[1].rhs_raw), m[1].lhs, delay),
                  parser |-> p]

\* The boundary without the register nets.
Boundary_NoRegisters(G, ff_q_nets, d_nets) ==
    [G |-> G,
     startpoints |-> sorted({n \in Nodes(G) : in_degree(G, n) = 0}),
     endpoints |-> sorted({n \in Nodes(G) : out_degree(G, n) = 0})]

\* build_graph_from_verilog after the parse: comb_start, comb_end, the sorted unions
Boundary(G, ff_q_nets, d_nets) ==
    LET comb_start == {n \in Nodes(G) : in_degree(G, n) = 0}
        comb_end == {n \in Nodes(G) : out_degree(G, n) = 0}
    IN  [G |-> G,
         startpoints |-> sorted(comb_start \cup ff_q_nets),
         endpoints |-> sorted(comb_end \cup d_nets)]

\* ---------------------------------------------------------------------
\* SpecSlack: one call compute_slacks(G, AT, RT) with any arrival times in
\* R + {-inf} and any required times in R + {+inf}.
ATValues == {NInf} \cup {Fin(t) : t \in 0..MaxTime}
RTValues == {PInf} \cup {Fin(t) : t \in 0..MaxTime}

InitSlack ==
    /\ pc = "slack"
    /\ \E g \in Dags(MaxDelay) :
          /\ graphs = <<g>>
          /\ \E AT \in [Nodes(g) -> ATValues], RT \in [Nodes(g) -> RTValues] :
                inp = [fn |-> "compute_slacks", AT |-> AT, RT |-> RT]
    /\ work_graph = 1
    /\ kahn = NoKahn
    /\ fwd = NoFwd
    /\ it = 0
    /\ res = <<>>
    /\ path_info = <<>>
    /\ critical_paths = <<>>
    /\ ret = <<>>
    /\ raised = "none"
    /\ parser = NoParser

ComputeSlacks ==
    /\ pc = "slack"
    /\ ret' = <<compute_slacks(graphs[1], inp.AT, inp.RT)>>
    /\ pc' = "done"
    /\ UNCHANGED <<graphs, work_graph, inp, kahn, fwd, it, res, path_info,
                   critical_paths, raised, parser>>

NextSlack == ComputeSlacks

SpecSlack == InitSlack /\ [][NextSlack]_vars

\* ---------------------------------------------------------------------
\* SpecParse: one call build_graph_from_verilog on a text of at most
\* MaxLines lines, one turn of `for line in verilog_text.splitlines()` per step.
MaxLines == 3

HeaderSeq == <<"always", "@", "(", "posedge", "clk", ")", "begin">>
HeaderSeqBody ==
    <<"always", "@", "(", "posedge", "clk", ")", "begin", "q", "<=", "d", ";", "end">>
HeaderComb == <<"always", "@", "(", "*", ")", "begin">>
EndLine == <<"end">>
EndModule == <<"endmodule">>
SeqAssign == <<"q", "<=", "d", ";">>
CombAssign == <<"y", "=", "a", "&", "b", ";">>
CombWire == <<"x", "=", "a", ";">>
AssignNor == <<"assign", "y", "=", "~", "a", "&", "~", "b", ";">>
AssignLiteral == <<"assign", "q", "=", "y", "|", "1'b0", ";">>
AssignXor == <<"assign", "y", "=", "q", "^", "d", ";">>
Mux2Instance ==
    <<"MUX2", "u", "(", ".A", "(", "a", ")", ",", ".B", "(", "b", ")", ",",
      ".S", "(", "s", ")", ",", ".Y", "(", "y", ")", ")", ";">>

LineVocabulary ==
    {HeaderSeq, HeaderSeqBody, HeaderComb, EndLine, EndModule, SeqAssign, CombAssign,
     CombWire, AssignNor, AssignLiteral, AssignXor, Mux2Instance}

Texts == UNION {[1..n -> LineVocabulary] : n \in 0..MaxLines}

InitParseWith(calls) ==
    /\ pc = "parse"
    /\ inp \in calls
    /\ graphs = <<EmptyGraph>>
    /\ parser = NoParser
    /\ work_graph = 0
    /\ kahn = NoKahn
    /\ fwd = NoFwd
    /\ it = 0
    /\ res = <<>>
    /\ path_info = <<>>
    /\ critical_paths = <<>>
    /\ ret = <<>>
    /\ raised = "none"

InitParse ==
    InitParseWith({[fn |-> "build_graph_from_verilog", verilog_text |-> t] : t \in Texts})

\* The loop is at a line; the line; the blocks' flags.
AtLine == pc = "parse" /\ it < Len(inp.verilog_text)
CurrentLine == inp.verilog_text[it + 1]
InBlock == parser.in_seq_always \/ parser.in_comb_always

\* The turn ends with G and the locals as r gives them.
NextLine(r) ==
    /\ graphs' = [graphs EXCEPT ![1] = r.G]
    /\ parser' = r.parser
    /\ it' = it + 1
    /\ UNCHANGED <<pc, work_graph, inp, kahn, fwd, res, path_info, critical_paths,
                   ret, raised>>

\* if stripped.startswith("always"): ...; continue
ParseAlways ==
    /\ AtLine /\ IsAlwaysLine(CurrentLine)
    /\ NextLine([G |-> graphs[1], parser |-> EnterAlways(parser, CurrentLine)])

\* if in a block and stripped.startswith("end"): leave it; continue
ParseEnd ==
    /\ AtLine /\ ~IsAlwaysLine(CurrentLine)
    /\ InBlock /\ IsEndLine(CurrentLine)
    /\ NextLine([G |-> graphs[1],
                 parser |-> [parser EXCEPT !.in_seq_always = FALSE,
                                           !.in_comb_always = FALSE]])

\* if in_seq_always: ...; continue
ParseSeq ==
    /\ AtLine /\ ~IsAlwaysLine(CurrentLine)
    /\ ~(InBlock /\ IsEndLine(CurrentLine))
    /\ parser.in_seq_always
    /\ NextLine(SeqLine(graphs[1], parser, CurrentLine))

\* if in_comb_always: ...; continue
ParseComb ==
    /\ AtLine /\ ~IsAlwaysLine(CurrentLine)
    /\ ~(InBlock /\ IsEndLine(CurrentLine))
    /\ ~parser.in_seq_always /\ parser.in_comb_always
    /\ NextLine(CombLine(graphs[1], parser, CurrentLine))

\* m = mux2_re.match(line); if m: ...; continue
ParseMux2 ==
    /\ AtLine /\ ~IsAlwaysLine(CurrentLine)
    /\ ~InBlock
    /\ mux2_re(CurrentLine) # <<>>
    /\ NextLine(Mux2Line(graphs[1], parser, CurrentLine))

\* m = assign_re.match(line); if m: ...
ParseAssign ==
    /\ AtLine /\ ~IsAlwaysLine(CurrentLine)
    /\ ~InBlock
    /\ mux2_re(CurrentLine) = <<>>
    /\ NextLine(AssignLine(graphs[1], parser, CurrentLine))

\* The loop is over: parse_verilog_to_dag returns and build_graph_from_verilog
\* returns G, startpoints, endpoints (every edge has its delay already).
BuildReturn ==
    /\ pc = "parse" /\ it = Len(inp.verilog_text)
    /\ ret' = <<Boundary(graphs[1], parser.ff_q_nets, parser.d_nets)>>
    /\ pc' = "done"
    /\ UNCHANGED <<graphs, work_graph, inp, kahn, fwd, it, res, path_info,
                   critical_paths, raised, parser>>

NextParse ==
    \/ ParseAlways \/ ParseEnd \/ ParseSeq \/ ParseComb \/ ParseMux2 \/ ParseAssign
    \/ BuildReturn

SpecParse == InitParse /\ [][NextParse]_vars

\* ---------------------------------------------------------------------
\* SpecNetlist: the main script on a netlist: build_graph_from_verilog,
\* then find_k_critical_paths with the startpoints and endpoints it returned.
ScenarioMaxK == 3

ChainText ==
    <<(<<"assign", "x", "=", "a", "&", "b", ";">>),
      (<<"assign", "y", "=", "x", "&", "c", ";">>),
      (<<"assign", "z", "=", "y", "&", "d", ";">>)>>

DiamondText ==
    <<(<<"assign", "m1", "=", "a", "&", "b", ";">>),
      (<<"assign", "m2", "=", "a", "|", "b", ";">>),
      (<<"assign", "y", "=", "m1", "|", "m2", ";">>)>>

Mux2Text == <<Mux2Instance>>

NorText == <<AssignNor>>

ScenarioTexts == {ChainText, DiamondText, Mux2Text, NorText}

\* clock_to_q of a run: 0, or the main script's 0.06.
ScenarioSeeds == {0, 60}

InitNetlist ==
    InitParseWith({[fn |-> "build_graph_from_verilog", verilog_text |-> t,
                    k |-> k, clock_to_q |-> c] :
                        t \in ScenarioTexts, k \in 0..ScenarioMaxK, c \in ScenarioSeeds})

\* find_k_critical_paths(G, startpoints=startpoints, endpoints=endpoints,
\* Tclk=1.0, setup=0.05, clock_to_q=..., k=k) on what the build returned.
Analyse ==
    /\ pc = "done" /\ inp.fn = "build_graph_from_verilog" /\ "k" \in DOMAIN inp
    /\ inp' = [fn |-> "find_k_critical_paths",
               a |-> [startpoints |-> ret[1].startpoints,
                      endpoints |-> ret[1].endpoints,
                      Tclk |-> 1000, setup |-> 50, clock_to_q |-> inp.clock_to_q,
                      startpoint_overrides |-> <<>>, endpoint_overrides |-> <<>>,
                      eps |-> 0],
               k |-> inp.k,
               verilog_text |-> inp.verilog_text]
    /\ it' = 0
    /\ pc' = "copy"
    /\ UNCHANGED <<graphs, work_graph, kahn, fwd, res, path_info, critical_paths,
                   ret, raised, parser>>

NextNetlist ==
    \/ ParseMux2 \/ ParseAssign \/ BuildReturn \/ Analyse
    \/ Copy \/ ExtractReturn \/ Break \/ Emit \/ LoopEnd \/ Return

SpecNetlist == InitNetlist /\ [][NextNetlist]_vars

\* ---------------------------------------------------------------------
\* SpecRoundTrip: on a copy H of a DAG G, extract_single_critical_path(H),
\* H.remove_edge on the path's edges, H.add_edge of the same edges with the
\* delays G has, extract_single_critical_path(H) again; startpoints and
\* endpoints are G's sources and sinks.
RoundTripNodes == 4
RoundTripEdges == 4

\* The successor lists a node of 1..n can have: the orderings of the sets
\* of other nodes.
SuccessorLists(n, u) == UNION {Orderings(S) : S \in SUBSET ((1..n) \ {u})}

\* The successor lists of the nodes u..n, at most budget edges in all.
RECURSIVE AdjTuples(_, _, _)
AdjTuples(u, n, budget) ==
    IF u > n THEN {<<>>}
    ELSE UNION {{<<l>> \o rest : rest \in AdjTuples(u + 1, n, budget - Len(l))} :
                   l \in {x \in SuccessorLists(n, u) : Len(x) <= budget}}

\* The DAGs on n nodes with at most maxe edges, every successor order,
\* every delay in 0..MaxDelay.
RoundTripGraphs(n, maxe) ==
    LET shapes == {[nodes |-> Iota(n), adj |-> a, delay |-> <<>>] : a \in AdjTuples(1, n, maxe)}
    IN  UNION {{[s EXCEPT !.delay = d] : d \in [Edges(s) -> 0..MaxDelay]} :
                  s \in {x \in shapes : ~HasCycle(x)}}

RoundTripArgs(g) ==
    [startpoints |-> Sorted({n \in Nodes(g) : in_degree(g, n) = 0}),
     endpoints |-> Sorted({n \in Nodes(g) : out_degree(g, n) = 0}),
     Tclk |-> Tclk, setup |-> Setup, clock_to_q |-> ClockToQ,
     startpoint_overrides |-> <<>>, endpoint_overrides |-> <<>>, eps |-> 0]

InitRoundTrip ==
    /\ pc = "first"
    /\ \E g \in RoundTripGraphs(RoundTripNodes, RoundTripEdges) :
          /\ graphs = copy(<<g>>, 1).graphs
          /\ work_graph = copy(<<g>>, 1).ref
          /\ inp = [fn |-> "extract_single_critical_path", a |-> RoundTripArgs(g)]
    /\ kahn = NoKahn
    /\ fwd = NoFwd
    /\ it = 0
    /\ res = <<>>
    /\ path_info = <<>>
    /\ critical_paths = <<>>
    /\ ret = <<>>
    /\ raised = "none"
    /\ parser = NoParser

\* for (u, v) in edges: H.add_edge(u, v, delay=G[u][v]["delay"])
RECURSIVE AddPathEdges(_, _, _)
AddPathEdges(g, es, delay) ==
    IF es = <<>> THEN g
    ELSE AddPathEdges(add_edge(g, Head(es)[1], Head(es)[2], delay[Head(es)]),
                      Tail(es), delay)

\* The first extract_single_critical_path(H, ...)
FirstExtract ==
    /\ pc = "first"
    /\ LET r == run_sta(graphs[work_graph], inp.a)
       IN  /\ res' = <<r>>
           /\ path_info' = ExtractFrom(graphs[work_graph], inp.a, r)
    /\ pc' = "remove"
    /\ UNCHANGED <<graphs, work_graph, inp, kahn, fwd, it, critical_paths, ret, raised,
                   parser>>

\* It returned None: there is no path to remove.
NoPath ==
    /\ pc = "remove" /\ path_info = <<>>
    /\ pc' = "done"
    /\ UNCHANGED <<graphs, work_graph, inp, kahn, fwd, it, res, path_info,
                   critical_paths, ret, raised, parser>>

\* The path is kept and its edges are removed from H.
RemovePath ==
    /\ pc = "remove" /\ path_info # <<>>
    /\ critical_paths' = <<path_info[1]>>
    /\ graphs' = [graphs EXCEPT ![work_graph] = RemovePathEdges(@, path_info[1].edges)]
    /\ pc' = "restore"
    /\ UNCHANGED <<work_graph, inp, kahn, fwd, it, res, path_info, ret, raised, parser>>

\* The same edges are added back with the delays they had.
RestorePath ==
    /\ pc = "restore"
    /\ graphs' = [graphs EXCEPT ![work_graph] =
                     AddPathEdges(@, critical_paths[1].edges, graphs[1].delay)]
    /\ pc' = "second"
    /\ UNCHANGED <<work_graph, inp, kahn, fwd, it, res, path_info, critical_paths,
                   ret, raised, parser>>

\* The second extract_single_critical_path(H, ...)
SecondExtract ==
    /\ pc = "second"
    /\ LET r == run_sta(graphs[work_graph], inp.a)
       IN  /\ res' = <<r>>
           /\ path_info' = ExtractFrom(graphs[work_graph], inp.a, r)
           /\ ret' = <<ExtractFrom(graphs[work_graph], inp.a, r)>>
    /\ pc' = "done"
    /\ UNCHANGED <<graphs, work_graph, inp, kahn, fwd, it, critical_paths, raised,
                   parser>>

NextRoundTrip == FirstExtract \/ NoPath \/ RemovePath \/ RestorePath \/ SecondExtract

SpecRoundTrip == InitRoundTrip /\ [][NextRoundTrip]_vars


\* ---------------------------------------------------------------------
\* SpecGate: the continuous assignment `assign y = <expression> ;` is parsed,
\* and detect_gate_type is called on the same expression, for every
\* expression of up to MaxRhsLen tokens.
MaxRhsLen == 5

GateTokens == {"~", "&", "|", "^", "a", "b", "1"}

Expressions(n) == UNION {[1..l -> GateTokens] : l \in 1..n}

AssignOf(expression) == <<"assign", "y", "=">> \o expression \o <<";">>

InitGate ==
    InitParseWith({[fn |-> "build_graph_from_verilog",
                    verilog_text |-> <<AssignOf(e)>>,
                    expression |-> e] : e \in Expressions(MaxRhsLen)})

\* detect_gate_type(expression)
DetectGate ==
    /\ pc = "done" /\ "expression" \in DOMAIN inp
    /\ ret' = <<detect_gate_type(inp.expression)>>
    /\ pc' = "classified"
    /\ UNCHANGED <<graphs, work_graph, inp, kahn, fwd, it, res, path_info,
                   critical_paths, raised, parser>>

NextGate == ParseAssign \/ BuildReturn \/ DetectGate

SpecGate == InitGate /\ [][NextGate]_vars


\* ---------------------------------------------------------------------
\* SpecTerminating: one call find_k_critical_paths(G, ..., k=k) on a DAG, k
\* negative included, without overrides.  The call is sequential code: while
\* it has not returned and its next statement can run, it runs it, and every
\* statement moves pc.  (An extraction on a cyclic graph raises instead; the
\* graphs here are DAGs.)
PlainArgs ==
    {[startpoints |-> s, endpoints |-> e, Tclk |-> Tclk, setup |-> Setup,
      clock_to_q |-> ClockToQ, startpoint_overrides |-> <<>>,
      endpoint_overrides |-> <<>>, eps |-> x] :
        s \in StartpointLists, e \in EndpointLists, x \in 0..MaxEps}

InitTerminating == InitWith(Dags(MaxDelay), PlainArgs, (-1)..MaxK)

Advance ==
    /\ pc \in {"copy", "loop", "extracted", "return"}
    /\ (pc = "loop" /\ it < inp.k) => ~HasCycle(graphs[work_graph])
    /\ pc' \in {"loop", "extracted", "return", "done"}

SpecTerminating == InitTerminating /\ [][NextFindK]_vars /\ WF_pc(Advance)


\* A list holding every node of g exactly once, every edge pointing forward.
IsTopoOrder(g, order) ==
    /\ Len(order) = Cardinality(Nodes(g))
    /\ Range(order) = Nodes(g)
    /\ \A e \in Edges(g) : IndexOf(order, e[1]) < IndexOf(order, e[2])

\* C1: on a graph with no directed cycle the sort returns (does not raise) a
\* list in which every node appears exactly once and, for every edge (u,v),
\* u comes before v.
C1_TopoOrder ==
    (pc = "done" /\ inp.fn = "Khan_topological_sort" /\ ~HasCycle(graphs[1]))
        => /\ raised = "none"
           /\ ret # <<>>
           /\ IsTopoOrder(graphs[1], ret[1])

\* An acyclic graph with an edge against the node order was sorted.
C1_Witness ==
    /\ pc = "done" /\ inp.fn = "Khan_topological_sort"
    /\ ~HasCycle(graphs[1])
    /\ Cardinality(Edges(graphs[1])) >= 2
    /\ \E e \in Edges(graphs[1]) : e[1] > e[2]
    /\ ret # <<>>

\* ------------------------------------------------------------------ C2
\* C2 as stated: the cycle error is raised exactly on the graphs with a
\* directed cycle, and find_k_critical_paths called on such a graph always
\* ends by that error, with no bundle and no paths.
C2_Original ==
    /\ (Khan_topological_sort(graphs[1]).raised = "NetworkXUnfeasible")
           <=> HasCycle(graphs[1])
    /\ (pc = "done" /\ HasCycle(graphs[1])) => raised = "NetworkXUnfeasible"
    /\ raised # "none" => (ret = <<>> /\ res = <<>> /\ path_info = <<>>)

\* C2 (amended): the cycle error is raised exactly on the graphs with a
\* directed cycle (a self-loop included); find_k_critical_paths with k >= 1
\* called on such a graph ends by that error and returns nothing, no bundle
\* is produced and no path is listed; the error is raised on no other graph.
C2_CycleError ==
    /\ (Khan_topological_sort(graphs[1]).raised = "NetworkXUnfeasible")
           <=> HasCycle(graphs[1])
    /\ (pc = "done" /\ HasCycle(graphs[1]) /\ inp.k >= 1)
           => raised = "NetworkXUnfeasible"
    /\ raised # "none"
           => /\ HasCycle(graphs[1]) /\ pc = "done"
              /\ ret = <<>> /\ res = <<>> /\ path_info = <<>> /\ critical_paths = <<>>

\* A call on a graph with a cycle that is no self-loop ended by the error.
C2_Witness ==
    /\ pc = "done" /\ raised = "NetworkXUnfeasible"
    /\ inp.fn = "find_k_critical_paths"
    /\ \A u \in Nodes(graphs[1]) : ~has_edge(graphs[1], u, u)

\* ------------------------------------------------------------------ C3
\* The largest of a non-empty set of floats.
MaxOf(S) == CHOOSE m \in S : \A x \in S : FLe(x, m)
MinOf(S) == CHOOSE m \in S : \A x \in S : FLe(m, x)

StartSeed(a, v) ==
    IF v \in DOMAIN a.startpoint_overrides THEN Fin(a.startpoint_overrides[v])
    ELSE IF v \in Range(a.startpoints) THEN Fin(a.clock_to_q) ELSE NInf

\* The paths of g: node sequences without repetition along edges.
PathsOf(g) ==
    {p \in UNION {Orderings(S) : S \in SUBSET Nodes(g) \ {{}}} :
        \A i \in 1..(Len(p) - 1) : has_edge(g, p[i], p[i + 1])}

RECURSIVE PathDelay(_, _)
PathDelay(g, p) ==
    IF Len(p) < 2 THEN 0
    ELSE g.delay[<<p[1], p[2]>>] + PathDelay(g, Tail(p))

\* seed + path delay of every path from a seeded net to v
ArrivalsAt(g, a, v) ==
    {FAdd(StartSeed(a, p[1]), Fin(PathDelay(g, p))) :
        p \in {q \in PathsOf(g) : q[Len(q)] = v /\ StartSeed(a, q[1]) # NInf}}

\* C3: with eps = 0 and a valid topological order, AT[v] is the maximum of
\* seed(v) and AT[u] + delay(u,v) over the in-edges with AT[u] # -inf; it is
\* the largest seed-plus-path-delay over the paths from seeded nets to v, and
\* -inf with an empty backpred[v] when no seeded net reaches v.
C3_ArrivalIsLongestPath ==
    (pc = "done" /\ inp.fn = "forward_arrival_times" /\ inp.a.eps = 0) =>
        LET g == graphs[1]
            AT == ret[1].AT
        IN  \A v \in Nodes(g) :
               /\ AT[v] = MaxOf({StartSeed(inp.a, v)} \cup
                                {FAdd(AT[e[1]], Fin(g.delay[e])) :
                                     e \in {x \in Edges(g) : x[2] = v /\ AT[x[1]] # NInf}})
               /\ ArrivalsAt(g, inp.a, v) # {} => AT[v] = MaxOf(ArrivalsAt(g, inp.a, v))
               /\ ArrivalsAt(g, inp.a, v) = {}
                     => (AT[v] = NInf /\ ret[1].backpred[v] = <<>>)

\* A sweep with eps = 0 where an override is beaten by a longer path and
\* some net is reached from no seeded net.
C3_Witness ==
    /\ pc = "done" /\ inp.fn = "forward_arrival_times" /\ inp.a.eps = 0
    /\ \E v \in DOMAIN inp.a.startpoint_overrides :
          /\ v \in Nodes(graphs[1])
          /\ FLt(Fin(inp.a.startpoint_overrides[v]), ret[1].AT[v])
    /\ \E v \in Nodes(graphs[1]) : ret[1].AT[v] = NInf

\* ------------------------------------------------------------------ C4
EndSeed(a, u) ==
    IF u \in DOMAIN a.endpoint_overrides THEN Fin(a.endpoint_overrides[u])
    ELSE IF u \in Range(a.endpoints) THEN Fin(a.Tclk - a.setup) ELSE PInf

\* C4: the RT that run_sta gets from backward_required_times is, for every
\* net u, the minimum of seed(u) and RT[v] - delay(u,v) over the out-edges
\* (u,v); every net that can reach an endpoint has a finite required time.
C4_RequiredTimes ==
    (pc = "extracted" /\ res # <<>>) =>
        LET g == graphs[work_graph]
            RT == res[1].RT
        IN  \A u \in Nodes(g) :
               /\ RT[u] = MinOf({EndSeed(inp.a, u)} \cup
                                {FSub(RT[e[2]], Fin(g.delay[e])) :
                                     e \in {x \in Edges(g) : x[1] = u}})
               /\ (\E v \in Descendants(g, u) : v \in Range(inp.a.endpoints))
                     => isfinite(RT[u])

\* ------------------------------------------------------------------ C5
\* C5: node_slack[n] = RT[n] - AT[n] for every net and edge_slack[(u,v)] =
\* RT[v] - AT[u] - delay(u,v) for every edge, +inf as soon as the arrival is
\* -inf or the required time +inf; a net with AT = -inf has node slack +inf.
C5_SlackIdentity ==
    (pc = "done" /\ inp.fn = "compute_slacks") =>
        LET g == graphs[1]
            AT == inp.AT
            RT == inp.RT
            out == ret[1]
        IN  /\ DOMAIN out.node_slack = Nodes(g)
            /\ DOMAIN out.edge_slack = Edges(g)
            /\ \A n \in Nodes(g) :
                  out.node_slack[n] =
                      IF AT[n] = NInf \/ RT[n] = PInf THEN PInf
                      ELSE Fin(RT[n].v - AT[n].v)
            /\ \A e \in Edges(g) :
                  out.edge_slack[e] =
                      IF AT[e[1]] = NInf \/ RT[e[2]] = PInf THEN PInf
                      ELSE Fin(RT[e[2]].v - AT[e[1]].v - g.delay[e])

\* Slacks were computed for an edge whose ends differ in arrival time and
\* for a net with AT = -inf and a finite RT.
C5_Witness ==
    /\ pc = "done" /\ inp.fn = "compute_slacks"
    /\ \E e \in Edges(graphs[1]) :
          /\ isfinite(inp.AT[e[1]]) /\ isfinite(inp.AT[e[2]]) /\ isfinite(inp.RT[e[2]])
          /\ inp.AT[e[1]] # inp.AT[e[2]]
          /\ graphs[1].delay[e] > 0
    /\ \E n \in Nodes(graphs[1]) : inp.AT[n] = NInf /\ isfinite(inp.RT[n])

\* ------------------------------------------------------------------ C6
RECURSIVE SumOver(_, _)
SumOver(S, f) ==
    IF S = {} THEN 0
    ELSE LET x == CHOOSE y \in S : TRUE
         IN  f[x].v + SumOver(S \ {x}, f)

\* C6: WNS is the minimum of the finite node slacks, +inf when there is
\* none; TNS is the sum of the finite negative node slacks, 0 when there is
\* none; TNS is finite and <= 0 and WNS is finite or +inf.
C6_Aggregates ==
    (pc = "done" /\ inp.fn = "compute_slacks") =>
        LET out == ret[1]
            F == {n \in DOMAIN out.node_slack : isfinite(out.node_slack[n])}
            Neg == {n \in F : out.node_slack[n].v < 0}
        IN  /\ F = {} => out.WNS = PInf
            /\ F # {} => /\ \E n \in F : out.WNS = out.node_slack[n]
                         /\ \A n \in F : out.WNS.v <= out.node_slack[n].v
            /\ out.TNS = Fin(SumOver(Neg, out.node_slack))
            /\ isfinite(out.TNS) /\ out.TNS.v <= 0
            /\ out.WNS = PInf \/ isfinite(out.WNS)

\* Aggregates over a positive, a negative and an infinite node slack.
C6_Witness ==
    /\ pc = "done" /\ inp.fn = "compute_slacks"
    /\ \E n \in Nodes(graphs[1]) : ret[1].node_slack[n] = PInf
    /\ \E n \in Nodes(graphs[1]) : FLt(ret[1].node_slack[n], Fin(0))
    /\ \E n \in Nodes(graphs[1]) : FLt(Fin(0), ret[1].node_slack[n])
                                      /\ isfinite(ret[1].node_slack[n])

\* ------------------------------------------------------------------ C7
PathEdges(p) == Range(p.edges)

\* C7: no edge appears in the edge lists of two different paths listed by
\* find_k_critical_paths.
C7_EdgeDisjoint ==
    inp.fn = "find_k_critical_paths" =>
        \A i, j \in 1..Len(critical_paths) :
            i # j => PathEdges(critical_paths[i]) \cap PathEdges(critical_paths[j]) = {}

\* Two paths were returned that meet in a net.
C7_Witness ==
    /\ pc = "done" /\ inp.fn = "find_k_critical_paths"
    /\ ret # <<>> /\ Len(ret[1]) >= 2
    /\ Range(ret[1][1].nodes) \cap Range(ret[1][2].nodes) # {}
    /\ Len(ret[1][1].edges) >= 2

\* ------------------------------------------------------------------ C8
EmittedEdges == UNION {PathEdges(critical_paths[i]) : i \in 1..Len(critical_paths)}

\* The working copy is G less the edges of the paths emitted so far.
WorkingCopyIsPrunedG ==
    (inp.fn = "find_k_critical_paths" /\ work_graph # 0) =>
        LET G == graphs[1]
            w == graphs[work_graph]
        IN  /\ w.nodes = G.nodes
            /\ Edges(w) = Edges(G) \ EmittedEdges
            /\ \A e \in Edges(w) : w.delay[e] = G.delay[e]

\* C8: no step of find_k_critical_paths changes the caller's graph G (its
\* nodes, successor lists and delays); the working copy alone loses the
\* emitted paths' edges.
C8_GraphUnchanged == [][graphs'[1] = graphs[1]]_vars /\ []WorkingCopyIsPrunedG

\* The call returned two paths, their edges gone from the working copy and
\* still in G.
C8_Witness ==
    /\ pc = "done" /\ inp.fn = "find_k_critical_paths"
    /\ ret # <<>> /\ Len(ret[1]) >= 2
    /\ EmittedEdges \subseteq Edges(graphs[1])
    /\ EmittedEdges \cap Edges(graphs[work_graph]) = {}

\* ------------------------------------------------------------------ C9
\* C9: a path returned by extract_single_critical_path starts at a member of
\* startpoints, ends at a member of endpoints, and each consecutive pair of
\* its nodes is an edge of the graph analysed.
C9_PathFromStartToEnd ==
    (pc = "extracted" /\ path_info # <<>>) =>
        LET p == path_info[1]
            g == graphs[work_graph]
        IN  /\ p.nodes[1] \in Range(inp.a.startpoints)
            /\ p.nodes[Len(p.nodes)] \in Range(inp.a.endpoints)
            /\ \A i \in 1..(Len(p.nodes) - 1) : has_edge(g, p.nodes[i], p.nodes[i + 1])

\* ----------------------------------------------------------------- C10
\* C10: after the sweep, for any eps >= 0, every edge (u,v) with delay d and
\* finite AT[u], AT[v] has AT[v] >= AT[u] + d - eps.
C10_ArrivalMonotone ==
    (pc = "done" /\ inp.fn = "forward_arrival_times") =>
        LET g == graphs[1]
            AT == ret[1].AT
        IN  \A e \in Edges(g) :
               (isfinite(AT[e[1]]) /\ isfinite(AT[e[2]]))
                   => AT[e[2]].v >= AT[e[1]].v + g.delay[e] - inp.a.eps

\* A sweep with eps > 0 left an edge whose head arrives earlier than its
\* tail's arrival plus the delay, and another edge set its head's arrival.
C10_Witness ==
    /\ pc = "done" /\ inp.fn = "forward_arrival_times" /\ inp.a.eps > 0
    /\ \E e \in Edges(graphs[1]) :
          /\ isfinite(ret[1].AT[e[1]]) /\ isfinite(ret[1].AT[e[2]])
          /\ ret[1].AT[e[2]].v < ret[1].AT[e[1]].v + graphs[1].delay[e]
    /\ \E e \in Edges(graphs[1]) :
          /\ isfinite(ret[1].AT[e[1]])
          /\ ret[1].backpred[e[2]] = <<e[1]>>
          /\ graphs[1].delay[e] > 0

\* ----------------------------------------------------------------- C11
\* C11: in the RT map run_sta gets from backward_required_times, every edge
\* (u,v) with delay d and finite RT[u], RT[v] has RT[u] <= RT[v] - d, also
\* when u and v are both endpoints.
C11_RequiredMonotone ==
    (pc = "extracted" /\ inp.fn = "find_k_critical_paths") =>
        LET g == graphs[work_graph]
            RT == res[1].RT
        IN  \A e \in Edges(g) :
               (isfinite(RT[e[1]]) /\ isfinite(RT[e[2]]))
                   => FLe(RT[e[1]], FSub(RT[e[2]], Fin(g.delay[e])))

\* ----------------------------------------------------------------- C12
\* C12: after forward_arrival_times with any eps >= 0, every u listed in
\* backpred[v] is a predecessor of v and |AT[u] + delay(u,v) - AT[v]| <= eps
\* for the final arrival times.
C12_BackpredWitness ==
    (pc = "done" /\ inp.fn = "forward_arrival_times") =>
        LET g == graphs[1]
            AT == ret[1].AT
            backpred == ret[1].backpred
        IN  \A v \in Nodes(g) : \A i \in 1..Len(backpred[v]) :
               LET u == backpred[v][i]
               IN  /\ has_edge(g, u, v)
                   /\ FLe(FAbs(FSub(FAdd(AT[u], Fin(g.delay[<<u, v>>])), AT[v])),
                          Fin(inp.a.eps))

\* A sweep with eps > 0 ended with a net whose list holds two predecessors,
\* the second one with a candidate above the arrival time the first one set.
C12_Witness ==
    /\ pc = "done" /\ inp.fn = "forward_arrival_times" /\ inp.a.eps > 0
    /\ LET g == graphs[1]
           AT == ret[1].AT
           backpred == ret[1].backpred
       IN  \E v \in Nodes(g) :
              /\ Len(backpred[v]) >= 2
              /\ AT[v] = FAdd(AT[backpred[v][1]], Fin(g.delay[<<backpred[v][1], v>>]))
              /\ FLt(AT[v], FAdd(AT[backpred[v][2]], Fin(g.delay[<<backpred[v][2], v>>])))


\* ----------------------------------------------------------------- C16
\* C16: on the empty graph run_sta returns an empty topological order,
\* WNS = +inf and TNS = 0 and find_k_critical_paths returns no path for any
\* k; on a graph of one node and no edge the node's AT is its seed (the
\* override if it has one, clock_to_q if it is a startpoint without one) and
\* -inf for a node that has no override and is no startpoint, and no path
\* is returned.
C16_EmptyAndSingleNode ==
    inp.fn = "find_k_critical_paths" =>
        LET G == graphs[1]
        IN  /\ (G.nodes = <<>> /\ pc = "extracted") =>
                  /\ res[1].raised = "none"
                  /\ res[1].topo = <<>>
                  /\ res[1].WNS = PInf
                  /\ res[1].TNS = Fin(0)
                  /\ path_info = <<>>
            /\ (G.nodes = <<>> /\ pc = "done") => ret = <<(<<>>)>>
            /\ (Len(G.nodes) = 1 /\ Edges(G) = {} /\ pc = "extracted") =>
                  LET n == G.nodes[1]
                      a == inp.a
                  IN  /\ res[1].AT[n] = StartSeed(a, n)
                      /\ n \notin DOMAIN a.startpoint_overrides =>
                            res[1].AT[n] = IF n \in Range(a.startpoints)
                                           THEN Fin(a.clock_to_q) ELSE NInf
                      /\ path_info = <<>>
            /\ (Len(G.nodes) = 1 /\ Edges(G) = {} /\ pc = "done") => ret = <<(<<>>)>>

\* A call with k >= 1 on the graph of one node, a startpoint and an
\* endpoint at once, analysed it and returned.
C16_Witness ==
    /\ pc = "done" /\ inp.fn = "find_k_critical_paths" /\ inp.k >= 1
    /\ Len(graphs[1].nodes) = 1 /\ Edges(graphs[1]) = {}
    /\ graphs[1].nodes[1] \in Range(inp.a.startpoints)
    /\ graphs[1].nodes[1] \in Range(inp.a.endpoints)
    /\ res # <<>> /\ res[1].AT[graphs[1].nodes[1]] = Fin(inp.a.clock_to_q)

\* ----------------------------------------------------------------- C13
\* The graph with exactly the edges of `delays` (edge -> delay).
HasExactlyEdges(g, delays) ==
    /\ Edges(g) = DOMAIN delays
    /\ \A e \in DOMAIN delays : g.delay[e] = delays[e]

DiamondEdges ==
    (<<"a", "m1">> :> 20) @@ (<<"b", "m1">> :> 20) @@ (<<"a", "m2">> :> 40) @@
    (<<"b", "m2">> :> 40) @@ (<<"m1", "y">> :> 40) @@ (<<"m2", "y">> :> 40)

\* C13: on the diamond built from the three assigns (a,b -> m1 at 0.02;
\* a,b -> m2 and m1,m2 -> y at 0.04), startpoints {a,b}, endpoint {y},
\* find_k_critical_paths returns exactly two paths for k = 2 and for k = 3,
\* both ending at y and with no common edge.
C13_DiamondTwoPaths ==
    (pc = "done" /\ inp.fn = "find_k_critical_paths" /\ inp.verilog_text = DiamondText) =>
        /\ HasExactlyEdges(graphs[1], DiamondEdges)
        /\ Range(inp.a.startpoints) = {"a", "b"}
        /\ Range(inp.a.endpoints) = {"y"}
        /\ inp.k \in {2, 3} =>
              /\ Len(ret[1]) = 2
              /\ \A i \in 1..2 : ret[1][i].nodes[Len(ret[1][i].nodes)] = "y"
              /\ Range(ret[1][1].edges) \cap Range(ret[1][2].edges) = {}
              /\ \A i \in 1..2 : Range(ret[1][i].edges) \subseteq DOMAIN DiamondEdges

\* The call with k = 3 on the diamond returned after a third extraction
\* that found no path.
C13_Witness ==
    /\ pc = "done" /\ inp.fn = "find_k_critical_paths" /\ inp.verilog_text = DiamondText
    /\ inp.k = 3 /\ it = 2 /\ path_info = <<>>
    /\ Len(critical_paths) = 2

\* ----------------------------------------------------------------- C14
ChainEdges ==
    (<<"a", "x">> :> 20) @@ (<<"b", "x">> :> 20) @@ (<<"x", "y">> :> 20) @@
    (<<"c", "y">> :> 20) @@ (<<"y", "z">> :> 20) @@ (<<"d", "z">> :> 20)

\* C14: on the chain x = a & b, y = x & c, z = y & d (every edge 0.02),
\* startpoints {a,b,c,d}, endpoints {z}, clock_to_q = 0, Tclk = 1.0 and
\* setup = 0.05: AT[z] = 0.06, RT[z] = 0.95, node_slack[z] = 0.89,
\* WNS = 0.89, TNS = 0, and the one critical path is a,x,y,z or b,x,y,z.
C14_ChainTiming ==
    (inp.fn = "find_k_critical_paths" /\ inp.verilog_text = ChainText
        /\ inp.a.clock_to_q = 0) =>
        /\ HasExactlyEdges(graphs[1], ChainEdges)
        /\ Range(inp.a.startpoints) = {"a", "b", "c", "d"}
        /\ Range(inp.a.endpoints) = {"z"}
        /\ inp.a.Tclk = 1000 /\ inp.a.setup = 50
        /\ (pc = "extracted" /\ it = 0) =>
              /\ res[1].AT["z"] = Fin(60)
              /\ res[1].RT["z"] = Fin(950)
              /\ res[1].node_slack["z"] = Fin(890)
              /\ res[1].WNS = Fin(890)
              /\ res[1].TNS = Fin(0)
              /\ path_info # <<>>
              /\ path_info[1].nodes \in {<<"a", "x", "y", "z">>, <<"b", "x", "y", "z">>}
        /\ (pc = "done" /\ inp.k = 1) => Len(ret[1]) = 1

\* The call with k = 1 on the chain returned its path of three gates.
C14_Witness ==
    /\ pc = "done" /\ inp.fn = "find_k_critical_paths" /\ inp.verilog_text = ChainText
    /\ inp.a.clock_to_q = 0 /\ inp.k = 1
    /\ Len(ret[1]) = 1 /\ Len(ret[1][1].edges) = 3 /\ ret[1][1].delay = Fin(60)

\* ----------------------------------------------------------------- C15
\* C15: for any DAG, the worst path extracted after the first worst path's
\* edges were removed and added back with the same delays is the first
\* worst path, node for node, ties between predecessors included.
C15_RoundTripSamePath ==
    (pc = "done" /\ inp.fn = "extract_single_critical_path" /\ critical_paths # <<>>) =>
        /\ path_info # <<>>
        /\ path_info[1].nodes = critical_paths[1].nodes

\* ----------------------------------------------------------------- C17
\* The clocked block starts at line i of text t, written on one line or
\* with its assignment on a line of its own.
BlockOnOneLine(t, i) == t[i] = HeaderSeqBody
BlockOnThreeLines(t, i) ==
    i + 2 <= Len(t) /\ t[i] = HeaderSeq /\ t[i + 1] = SeqAssign /\ t[i + 2] = EndLine

\* C17: parsing `always @(posedge clk) begin q <= d; end` puts q in the
\* Q-nets and d in the D-nets and adds no edge d -> q, the assignment being
\* on the header's line or on its own line; and neither the header line nor
\* a line processed inside a clocked block adds an edge.
C17_ClockedBlock ==
    /\ [](pc = "done" /\ inp.fn = "build_graph_from_verilog" =>
             \A i \in 1..Len(inp.verilog_text) :
                (BlockOnOneLine(inp.verilog_text, i) \/ BlockOnThreeLines(inp.verilog_text, i))
                   => "q" \in parser.ff_q_nets /\ "d" \in parser.d_nets)
    /\ [][(AtLine /\ (parser.in_seq_always \/ IsAlwaysLine(CurrentLine)))
              => Edges(graphs'[1]) = Edges(graphs[1])]_vars

\* ----------------------------------------------------------------- C20
Rank(n) == IndexOf(NetOrder, n)

StrictlySorted(s) == \A i, j \in 1..Len(s) : i < j => Rank(s[i]) < Rank(s[j])

\* C20: build_graph_from_verilog returns startpoints = the nets of
\* in-degree 0 and the Q-nets, endpoints = the nets of out-degree 0 and the
\* D-nets, each list sorted on the net string without duplicates, every
\* member a node of the returned graph.
C20_Boundary ==
    (pc = "done" /\ inp.fn = "build_graph_from_verilog") =>
        LET G == ret[1].G
            startpoints == ret[1].startpoints
            endpoints == ret[1].endpoints
        IN  /\ G = graphs[1]
            /\ Range(startpoints) =
                   {n \in Nodes(G) : ~\E m \in Nodes(G) : has_edge(G, m, n)}
                       \cup parser.ff_q_nets
            /\ Range(endpoints) =
                   {n \in Nodes(G) : ~\E m \in Nodes(G) : has_edge(G, n, m)}
                       \cup parser.d_nets
            /\ StrictlySorted(startpoints) /\ StrictlySorted(endpoints)
            /\ Range(startpoints) \cup Range(endpoints) \subseteq Nodes(G)

\* A build returned a Q-net that is driven and a D-net that has fanout,
\* among several startpoints and endpoints.
C20_Witness ==
    /\ pc = "done" /\ inp.fn = "build_graph_from_verilog"
    /\ \E n \in parser.ff_q_nets : in_degree(graphs[1], n) > 0 /\ n \in Range(ret[1].startpoints)
    /\ \E n \in parser.d_nets : out_degree(graphs[1], n) > 0 /\ n \in Range(ret[1].endpoints)
    /\ Len(ret[1].startpoints) >= 2

\* ----------------------------------------------------------------- C18
Mux2Nets == {"a", "b", "s", "y", "mux2_nS_1", "mux2_t0_1", "mux2_t1_1"}

Mux2Edges ==
    (<<"s", "mux2_nS_1">> :> 50) @@ (<<"a", "mux2_t0_1">> :> 70) @@
    (<<"mux2_nS_1", "mux2_t0_1">> :> 70) @@ (<<"b", "mux2_t1_1">> :> 70) @@
    (<<"s", "mux2_t1_1">> :> 70) @@ (<<"mux2_t0_1", "y">> :> 80) @@
    (<<"mux2_t1_1", "y">> :> 80)

\* The analysis of the text that is the one MUX2 instance.
Mux2Analysed == inp.fn = "find_k_critical_paths" /\ inp.verilog_text = Mux2Text

\* The statement with six edges: 7 nodes, 6 edges, AT[y] = seed + 0.20.
C18_SixEdges ==
    Mux2Analysed =>
        /\ Len(graphs[1].nodes) = 7 /\ Range(graphs[1].nodes) = Mux2Nets
        /\ Cardinality(Edges(graphs[1])) = 6
        /\ Range(inp.a.startpoints) = {"a", "b", "s"}
        /\ (pc = "extracted" /\ it = 0) =>
              res[1].AT["y"] = Fin(inp.a.clock_to_q + 200)

\* C18: parsing the single instance MUX2 u ( .A(a), .B(b), .S(s), .Y(y) );
\* yields exactly 7 nodes (a, b, s, y and the internal nets numbered 1) and
\* exactly 7 edges (s->nS, a->t0, nS->t0, b->t1, s->t1, t0->y, t1->y), and
\* with a, b, s seeded as startpoints at the same value the arrival time of
\* y is 0.20 above that seed (0.05 + 0.07 + 0.08 along s, nS, t0, y).
C18_Mux2Expansion ==
    Mux2Analysed =>
        /\ Len(graphs[1].nodes) = 7 /\ Range(graphs[1].nodes) = Mux2Nets
        /\ Cardinality(Edges(graphs[1])) = 7
        /\ HasExactlyEdges(graphs[1], Mux2Edges)
        /\ Range(inp.a.startpoints) = {"a", "b", "s"}
        /\ (pc = "extracted" /\ it = 0) =>
              /\ \A n \in {"a", "b", "s"} : res[1].AT[n] = Fin(inp.a.clock_to_q)
              /\ res[1].AT["y"] = Fin(inp.a.clock_to_q + 200)

\* The first analysis of the instance with the main script's clock_to_q
\* found y arriving at 0.26 through the inverter.
C18_Witness ==
    /\ Mux2Analysed /\ pc = "extracted" /\ it = 0 /\ inp.a.clock_to_q = 60
    /\ res[1].AT["y"] = Fin(260)
    /\ path_info # <<>>
    /\ path_info[1].nodes = <<"s", "mux2_nS_1", "mux2_t0_1", "y">>

\* ----------------------------------------------------------------- C19
\* The characteristics of a right-hand side the decision table reads.
NumSignals(e) == Cardinality({i \in 1..Len(e) : e[i] \in Words})
NumNegated(e) ==
    Cardinality({i \in 1..Len(e) : e[i] \in Words /\ i > 1 /\ e[i - 1] = "~"})

\* The decision table, first match wins, NOR and NAND asking for at least
\* `least` negated signal tokens.
GateTable(e, least) ==
    LET amp == Count(e, "&")
        bar == Count(e, "|")
        hat == Count(e, "^")
        tilde == Count(e, "~")
        negated == tilde >= 2 /\ NumNegated(e) = NumSignals(e) /\ NumNegated(e) >= least
    IN  CASE e[1] = "~" /\ amp = 0 /\ bar = 0 /\ hat = 0 -> "NOT"
          [] OTHER ->
        CASE amp > 0 /\ bar = 0 /\ hat = 0 /\ negated -> "NOR"
          [] OTHER ->
        CASE bar > 0 /\ amp = 0 /\ hat = 0 /\ negated -> "NAND"
          [] OTHER ->
        CASE hat > 0 /\ amp = 0 /\ bar = 0 -> "XOR"
          [] OTHER ->
        CASE amp > 0 /\ bar = 0 /\ hat = 0 -> "AND"
          [] OTHER ->
        CASE bar > 0 /\ amp = 0 /\ hat = 0 -> "OR"
          [] OTHER -> "ASSIGN"

NorExpression == <<"~", "a", "&", "~", "b">>

\* The classifier answers as the table with `least`, the edges of the
\* assignment carry that class's delay, and ~a & ~b is NOR with 0.045.
ClassifiedBy(least) ==
    (pc = "classified") =>
        /\ ret[1] = GateTable(inp.expression, least)
        /\ \A s \in Range(signal_re_findall(inp.expression)) :
              /\ has_edge(graphs[1], s, "y")
              /\ graphs[1].delay[<<s, "y">>] = GATE_DELAY[GateTable(inp.expression, least)]
        /\ inp.expression = NorExpression =>
              /\ ret[1] = "NOR"
              /\ graphs[1].delay[<<"a", "y">>] = 45
              /\ graphs[1].delay[<<"b", "y">>] = 45

\* The table as stated: NOR and NAND whenever the counts of negated signal
\* tokens and of signal tokens are equal.
C19_TableAsStated == ClassifiedBy(0)

\* C19: detect_gate_type applies the decision table in order, first match
\* wins: NOT if the expression starts with ~ and has no &, |, ^; NOR if &>0,
\* |=0, ^=0, ~>=2, at least two signal tokens are negated and the number of
\* negated signal tokens equals the number of signal tokens; NAND likewise
\* with |>0, &=0; XOR if ^>0, &=0, |=0; AND if &>0, |=0, ^=0; OR if |>0, &=0,
\* ^=0; otherwise ASSIGN.  `assign y = ~a & ~b;` is NOR with delay 0.045 on
\* a -> y and on b -> y.
C19_DecisionTable == ClassifiedBy(2)

\* ~a & ~b was parsed and classified NOR.
C19_Witness ==
    /\ pc = "classified" /\ inp.expression = NorExpression /\ ret[1] = "NOR"
    /\ graphs[1].delay[<<"a", "y">>] = 45 /\ graphs[1].delay[<<"b", "y">>] = 45

\* ----------------------------------------------------------------- C21
\* A path of at least one edge leads from a startpoint to an endpoint in g.
PathSupply(g, a) ==
    \E s \in Range(a.startpoints) \cap Nodes(g) :
        Range(a.endpoints) \cap Descendants(g, s) # {}

\* C21: when find_k_critical_paths stops before k paths, the pruned working
\* graph holds no path of at least one edge from a member of startpoints to
\* a member of endpoints.
C21_EarlyStopExhausted ==
    (inp.fn = "find_k_critical_paths" /\ pc = "return" /\ it < inp.k) =>
        ~PathSupply(graphs[work_graph], inp.a)

\* ----------------------------------------------------------------- C22
\* The candidate AT[u] + delay(u,v) of the in-edge (u,v), AT[u] finite.
Candidate(g, AT, u, v) == FAdd(AT[u], Fin(g.delay[<<u, v>>]))

IsPrefix(s, t) == Len(s) <= Len(t) /\ SubSeq(t, 1, Len(s)) = s

\* With eps = 0 backpred[v] lists exactly the predecessors whose candidate
\* equals AT[v], each once.
ExactTies(g, AT, backpred) ==
    \A v \in Nodes(g) :
        /\ \A u \in Nodes(g) :
              (has_edge(g, u, v) /\ isfinite(AT[u]) /\ Candidate(g, AT, u, v) = AT[v])
                  <=> u \in Range(backpred[v])
        /\ Cardinality(Range(backpred[v])) = Len(backpred[v])

\* With eps = 0 a turn of the sweep either leaves AT[v] and appends to
\* backpred[v], or raises AT[v] strictly and restarts the list.
StrictReplace ==
    (pc = "fwd_loop" /\ inp.a.eps = 0) =>
        \A v \in Nodes(graphs[1]) :
            \/ fwd'.AT[v] = fwd.AT[v] /\ IsPrefix(fwd.backpred[v], fwd'.backpred[v])
            \/ /\ FLt(fwd.AT[v], fwd'.AT[v])
               /\ fwd'.backpred[v] # <<>>
               /\ ~IsPrefix(fwd.backpred[v], fwd'.backpred[v]) \/ fwd.backpred[v] = <<>>

\* The retention for the in-edges within eps of the final AT[v], any eps.
C22_WithinEps ==
    (pc = "done" /\ inp.fn = "forward_arrival_times") =>
        LET g == graphs[1]
            AT == ret[1].AT
        IN  \A v \in Nodes(g) : \A u \in Nodes(g) :
               (/\ has_edge(g, u, v) /\ isfinite(AT[v]) /\ isfinite(AT[u])
                /\ FLe(FAbs(FSub(Candidate(g, AT, u, v), AT[v])), Fin(inp.a.eps)))
                   => u \in Range(ret[1].backpred[v])

\* C22: after forward_arrival_times with any eps >= 0, for every net v with
\* finite AT[v] and every in-edge (u,v) with finite AT[u] such that
\* AT[u] + delay(u,v) = AT[v], u is a member of backpred[v]; with eps = 0 a
\* candidate exactly equal to AT[v] is appended and only a strictly larger
\* candidate replaces the list.
C22_TieRetention ==
    /\ []((pc = "done" /\ inp.fn = "forward_arrival_times") =>
            LET g == graphs[1]
                AT == ret[1].AT
            IN  /\ \A v \in Nodes(g) : \A u \in Nodes(g) :
                      (/\ has_edge(g, u, v) /\ isfinite(AT[v]) /\ isfinite(AT[u])
                       /\ Candidate(g, AT, u, v) = AT[v])
                          => u \in Range(ret[1].backpred[v])
                /\ inp.a.eps = 0 => ExactTies(g, AT, ret[1].backpred))
    /\ [][StrictReplace]_vars

\* A sweep with eps = 0 ended with a net whose two predecessors both give
\* its arrival time, the second one appended to the list of the first.
C22_Witness ==
    /\ pc = "done" /\ inp.fn = "forward_arrival_times" /\ inp.a.eps = 0
    /\ LET g == graphs[1]
           AT == ret[1].AT
       IN  \E v \in Nodes(g) :
              /\ Len(ret[1].backpred[v]) = 2
              /\ ret[1].backpred[v][1] # ret[1].backpred[v][2]
              /\ \A i \in 1..2 : Candidate(g, AT, ret[1].backpred[v][i], v) = AT[v]

\* ----------------------------------------------------------------- C23
\* The endpoints that are nodes of the analysed graph, in the order of the
\* endpoints collection, and the first of them whose slack none is below.
ValidEndpoints == SelectSeq(inp.a.endpoints, LAMBDA e : e \in Nodes(graphs[work_graph]))

SelectedEndpoint ==
    LET slack == res[1].node_slack
        i == CHOOSE i \in 1..Len(ValidEndpoints) :
                /\ \A j \in 1..Len(ValidEndpoints) :
                      ~FLt(slack[ValidEndpoints[j]], slack[ValidEndpoints[i]])
                /\ \A j \in 1..(i - 1) : slack[ValidEndpoints[j]] # slack[ValidEndpoints[i]]
    IN  ValidEndpoints[i]

\* The trace stops at net n.
TraceStopsAt(n) == n \in Range(inp.a.startpoints) \/ res[1].backpred[n] = <<>>

\* C23: extract_single_critical_path starts at the selected endpoint and
\* moves to backpred[current][0] until the current net is a startpoint or
\* has an empty backpred list; the node list returned is that trace reversed
\* (source first), the edge list its consecutive pairs, and a trace of fewer
\* than two nodes gives no path.
C23_Trace ==
    (inp.fn = "find_k_critical_paths" /\ pc = "extracted" /\ ValidEndpoints # <<>>) =>
        /\ path_info = <<>> <=> TraceStopsAt(SelectedEndpoint)
        /\ path_info # <<>> =>
              LET nodes == path_info[1].nodes
                  edges == path_info[1].edges
                  n == Len(nodes)
              IN  /\ n >= 2
                  /\ nodes[n] = SelectedEndpoint
                  /\ TraceStopsAt(nodes[1])
                  /\ \A i \in 2..n :
                        /\ ~TraceStopsAt(nodes[i])
                        /\ nodes[i - 1] = res[1].backpred[nodes[i]][1]
                  /\ edges = [i \in 1..(n - 1) |-> <<nodes[i], nodes[i + 1]>>]

\* A path was traced through a net with two predecessors listed, the second
\* of them not on the path.
C23_Witness ==
    /\ inp.fn = "find_k_critical_paths" /\ pc = "extracted" /\ path_info # <<>>
    /\ \E i \in 2..Len(path_info[1].nodes) :
          LET b == res[1].backpred[path_info[1].nodes[i]]
          IN  Len(b) = 2 /\ b[2] # b[1] /\ b[2] \notin Range(path_info[1].nodes)

\* ----------------------------------------------------------------- C24
\* C24: the path's endpoint is the member of endpoints that is a node of the
\* graph and has the least node_slack, infinite slacks compared like the
\* others; of several endpoints with the least slack the first in the order
\* of the endpoints collection is taken; no endpoint being a node of the
\* graph, no path is returned.
C24_EndpointSelection ==
    (inp.fn = "find_k_critical_paths" /\ pc = "extracted") =>
        /\ ValidEndpoints = <<>> => path_info = <<>>
        /\ path_info # <<>> =>
              LET slack == res[1].node_slack
                  last == path_info[1].nodes[Len(path_info[1].nodes)]
              IN  /\ last \in Range(inp.a.endpoints) \cap Nodes(graphs[work_graph])
                  /\ \A e \in Range(ValidEndpoints) : FLe(slack[last], slack[e])
                  /\ \A j \in 1..Len(ValidEndpoints) :
                        (ValidEndpoints[j] # last /\ slack[ValidEndpoints[j]] = slack[last])
                            => \E i \in 1..(j - 1) : ValidEndpoints[i] = last

\* Two endpoints of the graph tied on the slack
\* and the path ends at the first of the two, listed against the net order.
C24_Witness ==
    /\ inp.fn = "find_k_critical_paths" /\ pc = "extracted" /\ path_info # <<>>
    /\ Len(ValidEndpoints) = 2
    /\ ValidEndpoints[1] > ValidEndpoints[2]
    /\ res[1].node_slack[ValidEndpoints[1]] = res[1].node_slack[ValidEndpoints[2]]
    /\ path_info[1].nodes[Len(path_info[1].nodes)] = ValidEndpoints[1]

\* ----------------------------------------------------------------- C25
\* G less the edges E, the remaining successors in their order.
Pruned(G, E) ==
    [nodes |-> G.nodes,
     adj |-> [u \in DOMAIN G.adj |-> SelectSeq(G.adj[u], LAMBDA v : <<u, v>> \notin E)],
     delay |-> [e \in (DOMAIN G.delay) \ E |-> G.delay[e]]]

\* The analysis at hand is the full analysis of G less the emitted paths.
AnalysisIsCurrent ==
    (pc = "extracted") =>
        LET r == run_sta(Pruned(graphs[1], EmittedEdges), inp.a)
        IN  /\ res[1].topo = r.topo /\ res[1].AT = r.AT /\ res[1].RT = r.RT
            /\ res[1].backpred = r.backpred /\ res[1].node_slack = r.node_slack
            /\ Edges(graphs[work_graph]) = Edges(graphs[1]) \ EmittedEdges

\* A step after an extraction: a path is appended and exactly its edges
\* leave the working copy, or no path came and the loop is left.
AfterExtraction ==
    (pc = "extracted") =>
        IF path_info # <<>>
        THEN /\ critical_paths' = Append(critical_paths, path_info[1])
             /\ Edges(graphs'[work_graph]) =
                   Edges(graphs[work_graph]) \ PathEdges(path_info[1])
             /\ PathEdges(path_info[1]) \subseteq Edges(graphs[work_graph])
             /\ graphs'[work_graph].nodes = graphs[work_graph].nodes
             /\ it' = it + 1
        ELSE pc' = "return" /\ critical_paths' = critical_paths

\* Once the loop is left nothing is extracted: the list goes back as it is.
NoExtractionAfterLoop ==
    (pc = "return") => (pc' = "done" /\ ret' = <<critical_paths>> /\ res' = res)

\* C25: find_k_critical_paths always terminates and returns at most k paths
\* (none for k <= 0); each iteration re-runs the full analysis on the
\* current working copy, appends the extracted path and removes exactly that
\* path's edges from the working copy; the loop ends at the first iteration
\* whose extraction yields no path, and no extraction follows it.
C25_Termination ==
    /\ <>(pc = "done")
    /\ []((pc = "done") =>
            /\ raised = "none" /\ ret # <<>>
            /\ Len(ret[1]) <= (IF inp.k > 0 THEN inp.k ELSE 0))
    /\ [](Len(critical_paths) = it /\ (pc = "extracted" => it < inp.k))
    /\ []AnalysisIsCurrent
    /\ [][AfterExtraction]_vars
    /\ [][NoExtractionAfterLoop]_vars

\* A call with k = 2 returned one path: its second extraction gave none.
C25_Witness ==
    /\ pc = "done" /\ inp.k = 2 /\ Len(ret[1]) = 1 /\ path_info = <<>>
    /\ res[1].topo # <<>>
    /\ Edges(graphs[work_graph]) # {}

\* ----------------------------------------------------------------- C26
\* The slacks of a path: of its nodes and of its edges, one per position.
PathSlacks(p, r) ==
    [i \in 1..(Len(p.nodes) + Len(p.edges)) |->
        IF i <= Len(p.nodes) THEN r.node_slack[p.nodes[i]]
        ELSE r.edge_slack[p.edges[i - Len(p.nodes)]]]

RECURSIVE IntSum(_)
IntSum(s) == IF s = <<>> THEN 0 ELSE Head(s) + IntSum(Tail(s))

\* C26: for every path returned by extract_single_critical_path the delay
\* is the sum of the delays of its edges, WNS is the least of the node
\* slacks of its nodes and the edge slacks of its edges, TNS is the sum of
\* those of these slacks that are negative, and with eps = 0 the delay is
\* AT[last node] - AT[first node].
C26_PathFigures ==
    (inp.fn = "find_k_critical_paths" /\ pc = "extracted" /\ path_info # <<>>) =>
        LET p == path_info[1]
            g == graphs[work_graph]
            sl == PathSlacks(p, res[1])
            negative == SelectSeq(sl, LAMBDA x : x.k = "ninf" \/ (x.k = "fin" /\ x.v < 0))
        IN  /\ p.delay = Fin(IntSum([i \in 1..Len(p.edges) |-> g.delay[p.edges[i]]]))
            /\ \E i \in 1..Len(sl) : sl[i] = p.WNS
            /\ \A i \in 1..Len(sl) : FLe(p.WNS, sl[i])
            /\ \A i \in 1..Len(negative) : isfinite(negative[i])
            /\ p.TNS = Fin(IntSum([i \in 1..Len(negative) |-> negative[i].v]))
            /\ inp.a.eps = 0 =>
                  p.delay = FSub(res[1].AT[p.nodes[Len(p.nodes)]], res[1].AT[p.nodes[1]])

\* A path of two edges and of positive delay came back with eps = 0, late at
\* its endpoint: its TNS is negative.
C26_Witness ==
    /\ inp.fn = "find_k_critical_paths" /\ pc = "extracted" /\ path_info # <<>>
    /\ inp.a.eps = 0
    /\ Len(path_info[1].edges) = 2
    /\ FLt(Fin(0), path_info[1].delay)
    /\ FLt(path_info[1].TNS, Fin(0)) /\ FLt(path_info[1].WNS, Fin(0))

\* ----------------------------------------------------------------- C27
\* The loop is at a procedural assignment inside a combinational block.
AtCombAssignment ==
    /\ AtLine /\ ~IsAlwaysLine(CurrentLine) /\ ~IsEndLine(CurrentLine)
    /\ parser.in_comb_always /\ ~parser.in_seq_always
    /\ proc_assign_re(CurrentLine) # <<>>

\* C27: in a combinational always block a procedural assignment whose
\* right-hand side is classified ASSIGN gets its edges with the COMB_ALWAYS
\* delay (0.02), not the ASSIGN delay (0.001); any other class uses its own
\* delay of the table.
C27_CombAlwaysDelay ==
    [][AtCombAssignment =>
          LET m == proc_assign_re(CurrentLine)[1]
              class == detect_gate_type(m.rhs_raw)
              delay == IF class = "ASSIGN" THEN GATE_DELAY["COMB_ALWAYS"]
                       ELSE GATE_DELAY[class]
          IN  \A s \in Range(signal_re_findall(m.rhs_raw)) :
                 /\ has_edge(graphs'[1], s, m.lhs)
                 /\ graphs'[1].delay[<<s, m.lhs>>] = delay]_vars

\* ----------------------------------------------------------------- C28
\* The state of the line machine that the two flags encode.
LineState(p) ==
    CASE p.in_seq_always /\ p.in_comb_always -> "Both"
      [] p.in_seq_always -> "InSeqAlways"
      [] p.in_comb_always -> "InCombAlways"
      [] OTHER -> "Outside"

\* What the turn at the current line must do to the state and the graph.
LineMachineStep ==
    AtLine =>
        LET line == CurrentLine
            from == LineState(parser)
            to == LineState(parser')
            entry == line # <<>> /\ line[1] = "always"
            exit == ~entry /\ from # "Outside" /\ line # <<>> /\ line[1] \in {"end", "endmodule"}
            adds_edges == \/ Edges(graphs'[1]) # Edges(graphs[1])
                          \/ graphs'[1].delay # graphs[1].delay
        IN  /\ entry => /\ to = (IF \E i \in 1..Len(line) : line[i] \in {"posedge", "negedge"}
                                 THEN "InSeqAlways" ELSE "InCombAlways")
                        /\ graphs'[1] = graphs[1]
            /\ exit => to = "Outside" /\ graphs'[1] = graphs[1]
            /\ (~entry /\ ~exit) => to = from
            /\ (adds_edges /\ (mux2_re(line) # <<>> \/ assign_re(line) # <<>>))
                  => from = "Outside"
            /\ (adds_edges /\ proc_assign_re(line) # <<>>) => from = "InCombAlways"

\* C28: the parser is a line state machine with the states Outside,
\* InCombAlways, InSeqAlways, never two at once: a line starting with
\* `always` enters InSeqAlways if it holds `posedge` or `negedge` and
\* InCombAlways otherwise, from any state; a line starting with `end` inside
\* a block returns to Outside; entry and exit lines add no node or edge; a
\* MUX2 instance line or an `assign` line adds edges only in Outside, and a
\* procedural assignment line only in InCombAlways.
C28_LineMachine ==
    /\ [](inp.fn = "build_graph_from_verilog" => LineState(parser) # "Both")
    /\ [][LineMachineStep]_vars

\* A combinational block was entered from inside a clocked block, its
\* assignment added edges.
C28_Witness ==
    /\ pc = "done" /\ inp.fn = "build_graph_from_verilog"
    /\ Len(inp.verilog_text) = 3
    /\ inp.verilog_text[1] = HeaderSeqBody /\ inp.verilog_text[2] = HeaderComb
    /\ inp.verilog_text[3] = CombAssign
    /\ LineState(parser) = "InCombAlways"
    /\ Edges(graphs[1]) # {}

\* ----------------------------------------------------------------- C29
\* The tokens of the text, and the internal nets of its MUX2 instances.
TextTokens(t) == UNION {Range(t[i]) : i \in 1..Len(t)}

Mux2Internal(t) ==
    {Mux2Name(stem, i) : stem \in {"nS", "t0", "t1"}, i \in 1..Len(t)}

\* C29: signal extraction yields net identifiers only: operators,
\* parentheses and numeric literals such as 1'b0 give no signal token, so
\* every node of the graph is a net written in the text (or an internal net
\* of a MUX2 instance) and every edge joins such nets; a literal adds no net
\* such as b0.
C29_LiteralsYieldNoToken ==
    (inp.fn = "build_graph_from_verilog") =>
        LET nets == (TextTokens(inp.verilog_text) \cap Words) \cup Mux2Internal(inp.verilog_text)
        IN  /\ Nodes(graphs[1]) \subseteq nets
            /\ \A e \in Edges(graphs[1]) : e[1] \in nets /\ e[2] \in nets

\* ----------------------------------------------------------------- C30
\* The node slack of a path's endpoint in the analysis the path came from.
EndpointSlack(p) == p.sta.node_slack[p.nodes[Len(p.nodes)]]

====
